---- MODULE Spec2Model ----
(***************************************************************************)
(* The battle-scoped marketplace backend (src/app): the relational store   *)
(* (sellers, buyers, products, purchases, metadata), the phase/day/round   *)
(* services, and the product, purchase, ranking and leaderboard handlers.  *)
(*                                                                         *)
(* Each handler is one action, translated from its own body.  A handler    *)
(* that calls a service without a battle id (create_product,               *)
(* update_product, create_purchase, get_leaderboard) cannot restrict the   *)
(* metadata read to one battle: it reads the way day_manager.              *)
(* get_current_day(db) does, "the first row with this key", and the row    *)
(* a query without ORDER BY returns first is any row that matches.         *)
(* Row fields that no handler under src/app assigns (the battle id of a    *)
(* product, a purchase or a buyer, the towel fields of a product) are      *)
(* filled in the way the design document describes them.                   *)
(***************************************************************************)
EXTENDS Integers, Sequences, FiniteSets, TLC

\* ------------------------------------------------------------------ bounds
MaxPurchases == 2
MaxScenarioPurchases == 3
MaxRound == 2
MaxDay == 1
MaxTextLen == 2

\* ------------------------------------------------------------- value sets
Battles == {"b1", "b2"}
SellerIds == {"s1", "s2"}
BuyerIds == {"u1"}
ProductIds == {"p1", "p2"}

NULL == "NULL"

\* uuid4 strings are compared as strings by the sort keys; the order of the
\* model's seller ids is their position here.
SellerIdOrder == <<"s1", "s2", "s3", "s4">>

IdIndex(s) == CHOOSE i \in 1..Len(SellerIdOrder) : SellerIdOrder[i] = s

\* Phase (phase_manager.py)
SELLER_MANAGEMENT == "seller_management"
BUYER_SHOPPING == "buyer_shopping"
OPEN == "open"
Phase == {SELLER_MANAGEMENT, BUYER_SHOPPING, OPEN}

PHASE_KEY == "current_phase"
DAY_KEY == "current_day"
ROUND_KEY == "current_round"
DEFAULT_PHASE == SELLER_MANAGEMENT
DEFAULT_DAY == 0
DEFAULT_ROUND == 1

\* Towel variants (towel_specs.py)
BUDGET == "budget"
MID_TIER == "mid_tier"
PREMIUM == "premium"
TowelVariant == {BUDGET, MID_TIER, PREMIUM}

\* The variant table with the mid-tier cost entered for the budget towel.
TOWEL_VARIANTS_BudgetAtMidTierCost ==
    [v \in TowelVariant |->
        CASE v = BUDGET -> [wholesale_cost_cents |-> 1200]
          [] v = MID_TIER -> [wholesale_cost_cents |-> 1200]
          [] v = PREMIUM -> [wholesale_cost_cents |-> 1500]]

\* TOWEL_VARIANTS: the wholesale cost of each variant.
TOWEL_VARIANTS ==
    [v \in TowelVariant |->
        CASE v = BUDGET -> [wholesale_cost_cents |-> 800]
          [] v = MID_TIER -> [wholesale_cost_cents |-> 1200]
          [] v = PREMIUM -> [wholesale_cost_cents |-> 1500]]

\* TOWEL_VARIANT_TO_PRODUCT_NUMBER: the image category of a variant.
TOWEL_VARIANT_TO_PRODUCT_NUMBER ==
    [v \in TowelVariant |->
        CASE v = BUDGET -> "01"
          [] v = MID_TIER -> "02"
          [] v = PREMIUM -> "03"]

\* The images table is reference data: id and product_number (category).
Images ==
    {[id |-> "img01", product_number |-> "01"],
     [id |-> "img02", product_number |-> "02"],
     [id |-> "img03", product_number |-> "03"],
     [id |-> "img00", product_number |-> NULL]}

\* Request inputs
PriceInputs == {0, 700, 900}
VariantInputs == {BUDGET}
ImageIdInputs == {<<>>, <<"img01">>, <<"img01", "img02">>, <<"img00">>, <<"img99">>}
\* A nullable column or an optional request field holds None or Some(x).
None == <<>>

Some(x) == <<x>>

RankingInputs == {None, Some(5)}
RoundInputs == 0..MaxRound
DayInputs == (0 - 1)..MaxDay

VARIABLES sellers, buyers, products, purchases, metadata, resp, calls

vars == <<sellers, buyers, products, purchases, metadata, resp, calls>>
db == <<sellers, buyers, products, purchases, metadata>>

\* ---------------------------------------------------------------- helpers
\* Requests the server is in the middle of handling, and the orchestrator's
\* run: the statement reached (pc), what was asked (request) and what has
\* been read so far (read).
CallIds == {"c1", "c2"}
NoCalls == [c \in CallIds |-> [pc |-> "idle", request |-> <<>>, read |-> <<>>]]

Range(f) == {f[x] : x \in DOMAIN f}

\* str(int) and int(str) of the metadata value column, for the small
\* non-negative integers of the model.
DecimalDigits == <<"0", "1", "2", "3", "4", "5", "6", "7", "8", "9">>

str(n) == DecimalDigits[n + 1]

IsIntString(s) == \E n \in 0..9 : str(n) = s

int(s) == CHOOSE n \in 0..9 : str(n) = s

Response(op, status, body) == [op |-> op, status |-> status, body |-> body]

\* The response to a request that carries an Authorization header, together
\* with the token the header presented.
Outcome(op, status, body, token) ==
    [op |-> op, status |-> status, body |-> body, token |-> token]

NoBody == <<>>

\* ------------------------------------------------------------ auth tokens
\* secrets.token_urlsafe(32): one secret per issued token.
SecretOf(id) == <<"secret", id>>

\* Strings are sequences of characters.  An id of the model ("s1", "b1")
\* is written as the one-character string Text(id); ":" is the colon.
Text(id) == <<id>>

\* str.split(sep): the pieces between the occurrences of sep, empty pieces
\* included; a string without sep is its own single piece.
RECURSIVE split(_, _)
split(text, sep) ==
    IF \A i \in 1..Len(text) : text[i] # sep
    THEN <<text>>
    ELSE LET i == CHOOSE i \in 1..Len(text) :
                     text[i] = sep /\ \A j \in 1..(i - 1) : text[j] # sep
         IN <<SubSeq(text, 1, i - 1)>>
                \o split(SubSeq(text, i + 1, Len(text)), sep)

\* Seller.generate_auth_token: f"{seller_id}:{battle_id}:{secret}"
generate_auth_token(seller_id, battle_id, secret) ==
    seller_id \o <<":">> \o battle_id \o <<":">> \o secret

\* Seller.decode_auth_token: (parts[0], parts[1]) of a token of exactly
\* three parts, None otherwise.
decode_auth_token(token) ==
    LET parts == split(token, ":")
    IN IF Len(parts) # 3 THEN None ELSE <<parts[1], parts[2]>>

\* Buyer.generate_auth_token and Buyer.decode_auth_token
buyer_generate_auth_token(buyer_id, battle_id, secret) ==
    buyer_id \o <<":">> \o battle_id \o <<":">> \o secret

buyer_decode_auth_token(token) ==
    LET parts == split(token, ":")
    IN IF Len(parts) # 3 THEN None ELSE <<parts[1], parts[2]>>

\* The tables are sets of rows; ids are primary keys.
Ids(table) == {r.id : r \in table}

Row(table, id) == CHOOSE r \in table : r.id = id

\* db.query(Seller).filter(Seller.auth_token == token).first()
\* The lookup by the ids the token decodes to, the secret not compared.
SellerByToken_DecodedIds(token) ==
    {s \in sellers : decode_auth_token(token) = <<Text(s.id), Text(s.battle_id)>>}

SellerByToken(token) == {s \in sellers : s.auth_token = token}
BuyerByToken(token) == {u \in buyers : u.auth_token = token}

\* The tokens a client may present: every issued token and a malformed one.
TokenInputs ==
    {s.auth_token : s \in sellers}
        \cup {u.auth_token : u \in buyers}
        \cup {<<"invalid-token">>}

\* --------------------------------------------------------------- metadata
MetadataRows(key) == {r \in metadata : r.key = key}
MetadataRow(key, battle_id) ==
    {r \in metadata : r.key = key /\ r.battle_id = battle_id}

\* record = query.first(); add the row or overwrite its value; commit.
Upsert(key, battle_id, value) ==
    (metadata \ MetadataRow(key, battle_id))
        \cup {[key |-> key, battle_id |-> battle_id, value |-> value]}

\* Phase(record.value), falling back to the default on an unknown value.
PhaseOfRow(r) == IF r.value \in Phase THEN r.value ELSE DEFAULT_PHASE

\* int(record.value), falling back to the default.
IntOfRow(r, default) == IF IsIntString(r.value) THEN int(r.value) ELSE default

get_current_phase(battle_id) ==
    LET rows == MetadataRow(PHASE_KEY, battle_id)
    IN IF rows = {} THEN DEFAULT_PHASE ELSE PhaseOfRow(CHOOSE r \in rows : TRUE)

get_current_round(battle_id) ==
    LET rows == MetadataRow(ROUND_KEY, battle_id)
    IN IF rows = {} THEN DEFAULT_ROUND
       ELSE IntOfRow(CHOOSE r \in rows : TRUE, DEFAULT_ROUND)

\* The values a read by key alone can return: the value of whichever row
\* with that key the store returns first, the default when there is none.
UnscopedPhases ==
    IF MetadataRows(PHASE_KEY) = {} THEN {DEFAULT_PHASE}
    ELSE {PhaseOfRow(r) : r \in MetadataRows(PHASE_KEY)}

UnscopedRounds ==
    IF MetadataRows(ROUND_KEY) = {} THEN {DEFAULT_ROUND}
    ELSE {IntOfRow(r, DEFAULT_ROUND) : r \in MetadataRows(ROUND_KEY)}

UnscopedDays ==
    IF MetadataRows(DAY_KEY) = {} THEN {DEFAULT_DAY}
    ELSE {IntOfRow(r, DEFAULT_DAY) : r \in MetadataRows(DAY_KEY)}

\* ensure_phase: the phase read passes when it is OPEN or allowed.
PhasePermits(current_phase, allowed_phases) ==
    current_phase = OPEN \/ current_phase \in allowed_phases

ensure_phase(battle_id, allowed_phases) ==
    PhasePermits(get_current_phase(battle_id), allowed_phases)

\* ------------------------------------------------------------------- Init
Init ==
    /\ sellers = {}
    /\ buyers = {}
    /\ products = {}
    /\ purchases = <<>>
    /\ metadata = {}
    /\ resp = Response("none", 0, NoBody)
    /\ calls = NoCalls

\* ------------------------------------------------------------------ admin
update_phase(battle_id, phase) ==
    /\ metadata' = Upsert(PHASE_KEY, battle_id, phase)
    /\ resp' = Response("update_phase", 200, <<battle_id>>)
    /\ UNCHANGED <<sellers, buyers, products, purchases>>
    /\ UNCHANGED calls

update_round(battle_id, round_number) ==
    /\ IF round_number < 1
       THEN /\ resp' = Response("update_round", 400, <<battle_id>>)
            /\ UNCHANGED metadata
       ELSE /\ metadata' = Upsert(ROUND_KEY, battle_id, str(round_number))
            /\ resp' = Response("update_round", 200, <<battle_id>>)
    /\ UNCHANGED <<sellers, buyers, products, purchases>>
    /\ UNCHANGED calls

\* The battle_id column of the day row: set_current_day constructs the row
\* from key and value; the column holds the battle of the request.
DayRowBattleId(battle_id) == battle_id

\* set_current_day: the first row with the day key, whatever its battle,
\* has its value overwritten; a row is added when there is none.  The
\* stores the commit can leave.
set_current_day(battle_id, day) ==
    IF MetadataRows(DAY_KEY) = {}
    THEN {metadata \cup {[key |-> DAY_KEY, battle_id |-> DayRowBattleId(battle_id),
                          value |-> str(day)]}}
    ELSE {(metadata \ {record}) \cup {[record EXCEPT !.value = str(day)]} :
             record \in MetadataRows(DAY_KEY)}

update_day(battle_id, day) ==
    /\ IF day < 0
       THEN /\ resp' = Response("update_day", 400, <<battle_id>>)
            /\ UNCHANGED metadata
       ELSE /\ metadata' \in set_current_day(battle_id, day)
            /\ resp' = Response("update_day", 200, <<battle_id>>)
    /\ UNCHANGED <<sellers, buyers, products, purchases>>
    /\ UNCHANGED calls

\* The admin reads answer with the value the service returns.
get_phase(battle_id) ==
    /\ resp' = Response("get_phase", 200, <<battle_id, get_current_phase(battle_id)>>)
    /\ UNCHANGED db
    /\ UNCHANGED calls

get_round(battle_id) ==
    /\ resp' = Response("get_round", 200, <<battle_id, get_current_round(battle_id)>>)
    /\ UNCHANGED db
    /\ UNCHANGED calls

get_day(battle_id) ==
    /\ \E current_day \in UnscopedDays :
           resp' = Response("get_day", 200, <<battle_id, current_day>>)
    /\ UNCHANGED db
    /\ UNCHANGED calls

\* --------------------------------------------------------- sellers, buyers
create_seller(seller_id, battle_id) ==
    /\ seller_id \notin Ids(sellers)
    /\ sellers' = sellers \cup
           {[id |-> seller_id, battle_id |-> battle_id,
             auth_token |-> generate_auth_token(Text(seller_id), Text(battle_id), SecretOf(seller_id))]}
    /\ resp' = Response("create_seller", 200, <<seller_id>>)
    /\ UNCHANGED <<buyers, products, purchases, metadata>>
    /\ UNCHANGED calls

create_buyer(buyer_id, battle_id) ==
    /\ buyer_id \notin Ids(buyers)
    /\ buyers' = buyers \cup
           {[id |-> buyer_id, battle_id |-> battle_id,
             auth_token |-> buyer_generate_auth_token(Text(buyer_id), Text(battle_id), SecretOf(buyer_id))]}
    /\ resp' = Response("create_buyer", 200, <<buyer_id>>)
    /\ UNCHANGED <<sellers, products, purchases, metadata>>
    /\ UNCHANGED calls

\* --------------------------------------------------------------- products
\* The image checks shared by create_product and update_product: the status
\* of the first check that fails, 200 when none does.
ImageCheck(image_ids) ==
    LET unique_image_ids == Range(image_ids)
        images == {img \in Images : img.id \in unique_image_ids}
        product_numbers ==
            {img.product_number : img \in images} \ {NULL}
    IN IF Len(image_ids) = 0 THEN 400
       ELSE IF Cardinality(images) # Cardinality(unique_image_ids) THEN 404
       ELSE IF Cardinality(product_numbers) > 1 THEN 400
       ELSE IF Cardinality(product_numbers) = 0 THEN 400
       ELSE 200

\* The columns of a new product row that create_product's body does not
\* assign: the battle of the owning seller and the towel fields of the
\* variant.
ProductBattleId(seller) == seller.battle_id

TowelFields(towel_variant) ==
    [towel_variant |-> towel_variant,
     wholesale_cost_cents |-> TOWEL_VARIANTS[towel_variant].wholesale_cost_cents]

NewProduct(id, seller, price, towel_variant, image_ids) ==
    [id |-> id,
     battle_id |-> ProductBattleId(seller),
     seller_id |-> seller.id,
     price_in_cent |-> price,
     ranking |-> None,
     towel_variant |-> TowelFields(towel_variant).towel_variant,
     wholesale_cost_cents |-> TowelFields(towel_variant).wholesale_cost_cents,
     images |-> Range(image_ids)]

\* The validator with "<" where the schema has "<=": price 0 passes.
ProductCreateValid_ZeroAllowed(price, image_ids) == price >= 0 /\ Len(image_ids) > 0

\* ProductCreate.validate_price / validate_image_ids run before the handler.
ProductCreateValid(price, image_ids) == price > 0 /\ Len(image_ids) > 0

create_product(id, token, price, towel_variant, image_ids) ==
    /\ UNCHANGED <<sellers, buyers, purchases, metadata>>
    /\ UNCHANGED calls
    /\ IF ~ProductCreateValid(price, image_ids)
       THEN /\ resp' = Outcome("create_product", 422, NoBody, token)
            /\ UNCHANGED products
       ELSE IF SellerByToken(token) = {}
       THEN /\ resp' = Outcome("create_product", 401, NoBody, token)
            /\ UNCHANGED products
       ELSE \E seller \in SellerByToken(token), current_phase \in UnscopedPhases :
              IF ~PhasePermits(current_phase, {SELLER_MANAGEMENT})
              THEN /\ resp' = Outcome("create_product", 403,
                                       <<seller.battle_id, "phase">>, token)
                   /\ UNCHANGED products
              ELSE IF id \in Ids(products)
              THEN /\ resp' = Outcome("create_product", 400, <<seller.battle_id>>, token)
                   /\ UNCHANGED products
              ELSE IF ImageCheck(image_ids) # 200
              THEN /\ resp' = Outcome("create_product", ImageCheck(image_ids),
                                      <<seller.battle_id>>, token)
                   /\ UNCHANGED products
              ELSE /\ products' = products \cup
                         {NewProduct(id, seller, price, towel_variant, image_ids)}
                   /\ resp' = Outcome("create_product", 200, <<seller.battle_id>>, token)

\* ProductUpdate.validate_price runs before the handler.
ProductUpdateValid(price) == price = None \/ price[1] > 0

\* The fields of ProductUpdate that are provided (not None) overwrite the
\* row's; image_ids is checked before it is assigned.
UpdatedProduct(row, price, image_ids, ranking) ==
    [row EXCEPT
        !.price_in_cent = IF price = None THEN @ ELSE price[1],
        !.images = IF image_ids = None THEN @ ELSE Range(image_ids[1]),
        !.ranking = IF ranking = None THEN @ ELSE ranking]

\* The owner test with the battle in place of the seller: any seller of the
\* product's battle passes.
OwnedBy_SameBattle(db_product, seller) == db_product.battle_id = seller.battle_id

\* db_product.seller_id != seller.id raises 403.
OwnedBy(db_product, seller) == db_product.seller_id = seller.id

update_product(id, token, price, image_ids, ranking) ==
    /\ UNCHANGED <<sellers, buyers, purchases, metadata>>
    /\ UNCHANGED calls
    /\ IF ~ProductUpdateValid(price)
       THEN /\ resp' = Outcome("update_product", 422, NoBody, token)
            /\ UNCHANGED products
       ELSE IF SellerByToken(token) = {}
       THEN /\ resp' = Outcome("update_product", 401, NoBody, token)
            /\ UNCHANGED products
       ELSE IF id \notin Ids(products)
       THEN /\ resp' = Outcome("update_product", 404, NoBody, token)
            /\ UNCHANGED products
       ELSE \E seller \in SellerByToken(token), current_phase \in UnscopedPhases :
              LET db_product == Row(products, id)
              IN IF ~OwnedBy(db_product, seller)
                 THEN /\ resp' = Outcome("update_product", 403,
                                          <<seller.battle_id, "owner">>, token)
                      /\ UNCHANGED products
                 ELSE IF ~PhasePermits(current_phase, {SELLER_MANAGEMENT})
                 THEN /\ resp' = Outcome("update_product", 403,
                                          <<seller.battle_id, "phase">>, token)
                      /\ UNCHANGED products
                 ELSE IF image_ids # None /\ ImageCheck(image_ids[1]) # 200
                 THEN /\ resp' = Outcome("update_product", ImageCheck(image_ids[1]),
                                         <<seller.battle_id>>, token)
                      /\ UNCHANGED products
                 ELSE /\ products' = (products \ {db_product}) \cup
                            {UpdatedProduct(db_product, price, image_ids, ranking)}
                      /\ resp' = Outcome("update_product", 200, <<seller.battle_id>>, token)

\* -------------------------------------------------------------- purchases
\* The battle of a purchase row, which create_purchase's body does not
\* assign: the battle of the buyer whose token made the request.
PurchaseBattleId(buyer) == buyer.battle_id

NewPurchase(product, buyer, current_day, current_round) ==
    [product_id |-> product.id,
     buyer_id |-> buyer.id,
     battle_id |-> PurchaseBattleId(buyer),
     purchased_at |-> current_day,
     price_of_purchase |-> product.price_in_cent,
     wholesale_cost_at_purchase |-> product.wholesale_cost_cents,
     round |-> current_round]

create_purchase(product_id, token) ==
    /\ UNCHANGED <<sellers, buyers, products, metadata>>
    /\ UNCHANGED calls
    /\ IF BuyerByToken(token) = {}
       THEN /\ resp' = Outcome("create_purchase", 401, NoBody, token)
            /\ UNCHANGED purchases
       ELSE IF product_id \notin Ids(products)
       THEN /\ resp' = Outcome("create_purchase", 404, NoBody, token)
            /\ UNCHANGED purchases
       ELSE \E buyer \in BuyerByToken(token), current_phase \in UnscopedPhases,
               current_day \in UnscopedDays, current_round \in UnscopedRounds :
              IF ~PhasePermits(current_phase, {BUYER_SHOPPING})
              THEN /\ resp' = Outcome("create_purchase", 403,
                                       <<buyer.battle_id, product_id>>, token)
                   /\ UNCHANGED purchases
              ELSE /\ purchases' = Append(purchases,
                         NewPurchase(Row(products, product_id), buyer,
                                     current_day, current_round))
                   /\ resp' = Outcome("create_purchase", 200,
                                       <<buyer.battle_id, product_id>>, token)

\* ------------------------------------------------------------ leaderboard
Indices(seq) == 1..Len(seq)

\* Tuples of integers compared the way Python compares tuples.
TupleLess(a, b) ==
    \E i \in Indices(a) :
        /\ a[i] < b[i]
        /\ \A j \in 1..(i - 1) : a[j] = b[j]

\* A sequence written as a function, with its elements evaluated once.
Evaluated(seq) == seq \o <<>>

\* list.sort / sorted are stable: ascending by key, equal keys keep the
\* order they had.  keys[i] is the key of seq[i].
StableSort(seq, keys) ==
    LET Before(j, i) ==
            TupleLess(keys[j], keys[i]) \/ (keys[j] = keys[i] /\ j < i)
        Pos(i) == 1 + Cardinality({j \in Indices(seq) : Before(j, i)})
        pos == Evaluated([i \in Indices(seq) |-> Pos(i)])
    IN Evaluated([k \in Indices(seq) |-> seq[CHOOSE i \in Indices(seq) : pos[i] = k]])

RECURSIVE SumSeq(_)
SumSeq(s) == IF s = <<>> THEN 0 ELSE s[1] + SumSeq(Tail(s))

\* All orders in which a query without ORDER BY may return the rows.
ReadOrders(S) ==
    {o \in [1..Cardinality(S) -> S] : \A i, j \in DOMAIN o : o[i] = o[j] => i = j}

\* Purchase JOIN Product GROUP BY (Product.seller_id, Purchase.round):
\* count(Purchase.id) and sum(price_of_purchase - wholesale_cost_at_purchase).
\* The sum with the wholesale cost left out: revenue instead of profit.
PurchaseProfit_Revenue(pu) == pu.price_of_purchase

\* The profit taken from the product's price as it is when the board is
\* computed, where the code takes the price stored with the purchase.
PurchaseProfit_CurrentPrice(pu) ==
    Row(products, pu.product_id).price_in_cent - pu.wholesale_cost_at_purchase

PurchaseProfit(pu) == pu.price_of_purchase - pu.wholesale_cost_at_purchase

JoinedPurchases ==
    SelectSeq(purchases, LAMBDA pu : pu.product_id \in Ids(products))

GroupStat(joined, seller_id, round) ==
    LET group == SelectSeq(joined,
                     LAMBDA pu : /\ pu.round = round
                                 /\ Row(products, pu.product_id).seller_id = seller_id)
    IN [seller_id |-> seller_id, round |-> round,
        purchase_count |-> Len(group),
        total_profit_cents |->
            SumSeq(Evaluated([i \in Indices(group) |-> PurchaseProfit(group[i])]))]

purchase_stats ==
    LET joined == JoinedPurchases
    IN {GroupStat(joined, g[1], g[2]) :
           g \in {<<Row(products, pu.product_id).seller_id, pu.round>> :
                     pu \in Range(joined)}}

SortedRounds(stats, current_round) ==
    LET all_rounds == {stat.round : stat \in stats} \cup {current_round}
        asSeq == CHOOSE o \in ReadOrders(all_rounds) : TRUE
    IN StableSort(asSeq, Evaluated([i \in Indices(asSeq) |-> <<asSeq[i]>>]))

\* round_stats[round][seller]: zero for every seller read, overwritten by
\* the seller's purchase_stats row for the round.
RoundEntry(stats, seller_id, round) ==
    LET rows == {st \in stats : st.seller_id = seller_id /\ st.round = round}
    IN IF rows = {}
       THEN [seller_id |-> seller_id, purchase_count |-> 0, total_profit_cents |-> 0]
       ELSE LET st == CHOOSE st \in rows : TRUE
            IN [seller_id |-> seller_id,
                purchase_count |-> st.purchase_count,
                total_profit_cents |-> st.total_profit_cents]

\* The sort key without its last component, the seller id.
RoundSortKey_NoSellerId(entry) ==
    <<0 - entry.total_profit_cents, 0 - entry.purchase_count>>

RoundSortKey(entry) ==
    <<0 - entry.total_profit_cents, 0 - entry.purchase_count, IdIndex(entry.seller_id)>>

\* The entries of one round, in the order the sellers were read, sorted.
RoundEntries(stats, seller_ids, round) ==
    LET entries == Evaluated([i \in Indices(seller_ids) |->
                                 RoundEntry(stats, seller_ids[i], round)])
    IN StableSort(entries,
                  Evaluated([i \in Indices(entries) |-> RoundSortKey(entries[i])]))

\* The winners without the round_has_activity test.
RoundWinners_NoActivityTest(entries) ==
    LET highest_profit == entries[1].total_profit_cents
        winning == SelectSeq(entries, LAMBDA e : e.total_profit_cents = highest_profit)
    IN Evaluated([i \in Indices(winning) |-> winning[i].seller_id])

RoundWinners(entries) ==
    LET round_has_activity == \E i \in Indices(entries) : entries[i].purchase_count > 0
        highest_profit == entries[1].total_profit_cents
        winning == SelectSeq(entries, LAMBDA e : e.total_profit_cents = highest_profit)
    IN IF round_has_activity
       THEN Evaluated([i \in Indices(winning) |-> winning[i].seller_id])
       ELSE <<>>

RoundPayload(stats, seller_ids, round, current_round) ==
    LET entries == RoundEntries(stats, seller_ids, round)
    IN [round |-> round,
        is_current_round |-> (round = current_round),
        leaderboard |-> entries,
        winners |-> RoundWinners(entries)]

OverallSortKey(entry) ==
    <<0 - entry.round_wins, 0 - entry.total_profit_cents,
      0 - entry.purchase_count, IdIndex(entry.seller_id)>>

\* overall_stats after the first k rounds of the loop over sorted_rounds,
\* one record per seller in the order the sellers were read: every seller
\* starts at zero; each round adds the seller's count and profit, and one
\* round win to each of the round's winners.
RECURSIVE overall_stats(_, _, _)
overall_stats(seller_ids, rounds_payload, k) ==
    IF k = 0
    THEN Evaluated([i \in Indices(seller_ids) |->
             [seller_id |-> seller_ids[i],
              purchase_count |-> 0, total_profit_cents |-> 0, round_wins |-> 0]])
    ELSE LET before == overall_stats(seller_ids, rounds_payload, k - 1)
             entries == rounds_payload[k].leaderboard
             winners == Range(rounds_payload[k].winners)
             stats(s) == CHOOSE e \in Range(entries) : e.seller_id = s
         IN Evaluated([i \in Indices(seller_ids) |->
                [seller_id |-> seller_ids[i],
                 purchase_count |->
                     before[i].purchase_count + stats(seller_ids[i]).purchase_count,
                 total_profit_cents |->
                     before[i].total_profit_cents
                         + stats(seller_ids[i]).total_profit_cents,
                 round_wins |->
                     before[i].round_wins
                         + (IF seller_ids[i] \in winners THEN 1 ELSE 0)]])

OverallLeaderboard(seller_ids, rounds_payload) ==
    LET entries == overall_stats(seller_ids, rounds_payload, Len(rounds_payload))
    IN StableSort(entries,
                  Evaluated([i \in Indices(entries) |-> OverallSortKey(entries[i])]))

\* The overall winners reduced to the first entry of the leaderboard.
OverallWinners_First(overall_leaderboard) ==
    IF overall_leaderboard = <<>> THEN <<>>
    ELSE <<overall_leaderboard[1].seller_id>>

OverallWinners(overall_leaderboard) ==
    IF overall_leaderboard = <<>> THEN <<>>
    ELSE LET max_wins == overall_leaderboard[1].round_wins
             winning == SelectSeq(overall_leaderboard,
                                  LAMBDA e : e.round_wins = max_wins)
         IN Evaluated([i \in Indices(winning) |-> winning[i].seller_id])

\* The payload get_leaderboard returns when the sellers are read in the
\* order seller_ids and the round read is current_round.
Leaderboard(seller_ids, current_round) ==
    IF seller_ids = <<>>
    THEN [current_round |-> current_round, rounds |-> <<>>,
          overall |-> [leaderboard |-> <<>>, winners |-> <<>>]]
    ELSE LET stats == purchase_stats
             sorted_rounds == SortedRounds(stats, current_round)
             rounds_payload ==
                 Evaluated([k \in Indices(sorted_rounds) |->
                     RoundPayload(stats, seller_ids, sorted_rounds[k], current_round)])
             overall_leaderboard == OverallLeaderboard(seller_ids, rounds_payload)
         IN [current_round |-> current_round,
             rounds |-> rounds_payload,
             overall |-> [leaderboard |-> overall_leaderboard,
                          winners |-> OverallWinners(overall_leaderboard)]]

\* GET /buy/stats/leaderboard?battle_id=...: the handler declares no
\* battle_id parameter, so the one in the query string is ignored; it reads
\* every seller and every purchase of the store.
get_leaderboard(battle_id) ==
    /\ \E seller_ids \in ReadOrders(Ids(sellers)), current_round \in UnscopedRounds :
          resp' = Response("get_leaderboard", 200,
                           <<battle_id, Leaderboard(seller_ids, current_round)>>)
    /\ UNCHANGED db
    /\ UNCHANGED calls

\* --------------------------------------------------------------- rankings
ProductsOfBattle(battle_id) == {p \in products : p.battle_id = battle_id}

\* random.shuffle(list(range(1, N + 1))): every assignment of 1..N to the
\* N products, each rank used once.
\* Rankings drawn independently for each product, repeats allowed.
Shuffles_WithRepeats(ids) == [ids -> 1..Cardinality(ids)]

Shuffles(ids) ==
    {f \in [ids -> 1..Cardinality(ids)] : \A x, y \in ids : f[x] = f[y] => x = y}

\* The assignment without the filter on the battle: a product of another
\* battle is ranked 1.
WithRankings_EveryBattle(battle_id, ranking_of) ==
    {IF p.battle_id = battle_id
     THEN [p EXCEPT !.ranking = Some(ranking_of[p.id])]
     ELSE [p EXCEPT !.ranking = Some(1)] : p \in products}

\* The assignment that leaves a ranking that is already set as it is.
WithRankings_OnlyUnranked(battle_id, ranking_of) ==
    {IF p.battle_id = battle_id /\ p.ranking = None
     THEN [p EXCEPT !.ranking = Some(ranking_of[p.id])]
     ELSE p : p \in products}

WithRankings(battle_id, ranking_of) ==
    {IF p.battle_id = battle_id
     THEN [p EXCEPT !.ranking = Some(ranking_of[p.id])]
     ELSE p : p \in products}

initialize_rankings(battle_id) ==
    /\ UNCHANGED <<sellers, buyers, purchases, metadata>>
    /\ UNCHANGED calls
    /\ IF ProductsOfBattle(battle_id) = {}
       THEN /\ resp' = Response("initialize_rankings", 200, <<battle_id, 0>>)
            /\ UNCHANGED products
       ELSE \E random_rankings \in Shuffles(Ids(ProductsOfBattle(battle_id))) :
              /\ products' = WithRankings(battle_id, random_rankings)
              /\ resp' = Response("initialize_rankings", 200,
                     <<battle_id, Cardinality(ProductsOfBattle(battle_id))>>)

\* count(Purchase.id) of the product among the purchases of the battle
\* stamped with current_round; 0 for a product without such a purchase.
\* The count without the filter on the round.
sales_count_AllRounds(product_id, battle_id, current_round) ==
    Cardinality({i \in Indices(purchases) :
        /\ purchases[i].product_id = product_id
        /\ purchases[i].battle_id = battle_id})

sales_count(product_id, battle_id, current_round) ==
    Cardinality({i \in Indices(purchases) :
        /\ purchases[i].product_id = product_id
        /\ purchases[i].battle_id = battle_id
        /\ purchases[i].round = current_round})

\* sorted(products_with_sales, key=sales_count, reverse=True): product_ids
\* is the order in which the products were read.
\* The sort without reverse=True: fewest sales first.
SortedBySales_Ascending(product_ids, battle_id, current_round) ==
    StableSort(product_ids,
        Evaluated([i \in Indices(product_ids) |->
            <<sales_count(product_ids[i], battle_id, current_round)>>]))

\* The list sorted ascending by sales count and then reversed: products
\* with equal counts end up in the reverse of the order they were read in.
SortedBySales_Reversed(product_ids, battle_id, current_round) ==
    LET ascending ==
            StableSort(product_ids,
                Evaluated([i \in Indices(product_ids) |->
                    <<sales_count(product_ids[i], battle_id, current_round)>>]))
    IN Evaluated([k \in Indices(ascending) |-> ascending[Len(ascending) + 1 - k]])

SortedBySales(product_ids, battle_id, current_round) ==
    StableSort(product_ids,
        Evaluated([i \in Indices(product_ids) |->
            <<0 - sales_count(product_ids[i], battle_id, current_round)>>]))

\* rank = position in the sorted list, starting at 1.
RankingBySales(sorted_products) ==
    [id \in Range(sorted_products) |->
        CHOOSE rank \in Indices(sorted_products) : sorted_products[rank] = id]

TopProducts(sorted_products, battle_id, current_round) ==
    Evaluated(
        [rank \in 1..(IF Len(sorted_products) < 5 THEN Len(sorted_products) ELSE 5) |->
            [product_id |-> sorted_products[rank],
             sales_count |-> sales_count(sorted_products[rank], battle_id, current_round),
             ranking |-> rank]])

\* The handler from the round read on, for the products as the query
\* returned them.
rank_by_sales(battle_id, product_ids) ==
    LET current_round == get_current_round(battle_id)
        sorted_products ==
            SortedBySales(product_ids, battle_id, current_round)
    IN /\ products' = WithRankings(battle_id, RankingBySales(sorted_products))
       /\ resp' = Response("update_rankings_by_sales", 200,
              <<battle_id, Len(product_ids),
                TopProducts(sorted_products, battle_id, current_round)>>)

update_rankings_by_sales(battle_id) ==
    /\ UNCHANGED <<sellers, buyers, purchases, metadata>>
    /\ UNCHANGED calls
    /\ IF ProductsOfBattle(battle_id) = {}
       THEN /\ resp' = Response("update_rankings_by_sales", 200, <<battle_id, 0, <<>>>>)
            /\ UNCHANGED products
       ELSE \E product_ids \in ReadOrders(Ids(ProductsOfBattle(battle_id))) :
              rank_by_sales(battle_id, product_ids)

\* The same handler a statement at a time, for a request that other
\* requests overlap.  Every request has a session of its own: it holds the
\* rows as it read them, and its commit writes, in one transaction, the
\* rankings it assigned that differ from the ones it read.
Answer(c, response) ==
    [op |-> response.op, status |-> response.status, body |-> response.body,
     call |-> c]

NoCallInFlight == \A c \in CallIds : calls[c].pc \in {"idle", "done"}

LoadedRankings(product_ids) ==
    [id \in Range(product_ids) |-> Row(products, id).ranking]

update_rankings_by_sales_products(c, battle_id) ==
    /\ calls[c].pc = "idle"
    /\ ProductsOfBattle(battle_id) # {}
    /\ \E product_ids \in ReadOrders(Ids(ProductsOfBattle(battle_id))) :
          calls' = [calls EXCEPT ![c] =
                       [pc |-> "products", request |-> <<battle_id>>,
                        read |-> <<product_ids, LoadedRankings(product_ids)>>]]
    /\ UNCHANGED <<db, resp>>

update_rankings_by_sales_round(c) ==
    /\ calls[c].pc = "products"
    /\ calls' = [calls EXCEPT ![c].pc = "round",
                              ![c].read = Append(@, get_current_round(calls[c].request[1]))]
    /\ UNCHANGED <<db, resp>>

update_rankings_by_sales_counts(c) ==
    /\ calls[c].pc = "round"
    /\ LET battle_id == calls[c].request[1]
           product_ids == calls[c].read[1]
           current_round == calls[c].read[3]
       IN calls' = [calls EXCEPT ![c].pc = "counts",
                                 ![c].read = Append(@,
                                     [id \in Range(product_ids) |->
                                         sales_count(id, battle_id, current_round)])]
    /\ UNCHANGED <<db, resp>>

\* The products as the call sorts them by the counts it read.
SortedByCounts(product_ids, product_sales) ==
    StableSort(product_ids,
        Evaluated([i \in Indices(product_ids) |-> <<0 - product_sales[product_ids[i]]>>]))

update_rankings_by_sales_commit(c) ==
    /\ calls[c].pc = "counts"
    /\ LET battle_id == calls[c].request[1]
           product_ids == calls[c].read[1]
           loaded == calls[c].read[2]
           product_sales == calls[c].read[4]
           sorted_products == SortedByCounts(product_ids, product_sales)
           ranking_of == RankingBySales(sorted_products)
       IN /\ products' =
                {IF p.id \in Range(product_ids) /\ loaded[p.id] # Some(ranking_of[p.id])
                 THEN [p EXCEPT !.ranking = Some(ranking_of[p.id])]
                 ELSE p : p \in products}
          /\ resp' = Answer(c, Response("update_rankings_by_sales", 200,
                        <<battle_id, Len(product_ids),
                          Evaluated([rank \in Indices(sorted_products) |->
                              [product_id |-> sorted_products[rank],
                               sales_count |-> product_sales[sorted_products[rank]],
                               ranking |-> rank]])>>))
    /\ calls' = [calls EXCEPT ![c].pc = "done"]
    /\ UNCHANGED <<sellers, buyers, purchases, metadata>>

\* POST /buy/{product_id} a statement at a time, for a request that other
\* requests overlap: the buyer and the product as they were loaded, then
\* the phase check, the day read, the round read, and the commit of the row
\* built from what was read.
create_purchase_lookup(c, product_id, token) ==
    /\ calls[c].pc = "idle"
    /\ BuyerByToken(token) # {}
    /\ product_id \in Ids(products)
    /\ \E buyer \in BuyerByToken(token) :
          calls' = [calls EXCEPT ![c] =
                       [pc |-> "lookup", request |-> <<product_id, token>>,
                        read |-> <<buyer, Row(products, product_id)>>]]
    /\ UNCHANGED <<db, resp>>

create_purchase_ensure_phase(c) ==
    /\ calls[c].pc = "lookup"
    /\ \E current_phase \in UnscopedPhases :
          IF PhasePermits(current_phase, {BUYER_SHOPPING})
          THEN /\ calls' = [calls EXCEPT ![c].pc = "ensure_phase"]
               /\ UNCHANGED resp
          ELSE /\ calls' = [calls EXCEPT ![c].pc = "done"]
               /\ resp' = Answer(c, Response("create_purchase", 403,
                             <<calls[c].read[1].battle_id, calls[c].request[1]>>))
    /\ UNCHANGED db

create_purchase_day(c) ==
    /\ calls[c].pc = "ensure_phase"
    /\ \E current_day \in UnscopedDays :
          calls' = [calls EXCEPT ![c].pc = "day", ![c].read = Append(@, current_day)]
    /\ UNCHANGED <<db, resp>>

create_purchase_round(c) ==
    /\ calls[c].pc = "day"
    /\ \E current_round \in UnscopedRounds :
          calls' = [calls EXCEPT ![c].pc = "round", ![c].read = Append(@, current_round)]
    /\ UNCHANGED <<db, resp>>

create_purchase_commit(c) ==
    /\ calls[c].pc = "round"
    /\ LET buyer == calls[c].read[1]
           product == calls[c].read[2]
           current_day == calls[c].read[3]
           current_round == calls[c].read[4]
       IN /\ purchases' = Append(purchases,
                 NewPurchase(product, buyer, current_day, current_round))
          /\ resp' = Answer(c, Response("create_purchase", 200,
                        <<buyer.battle_id, product.id>>))
    /\ calls' = [calls EXCEPT ![c].pc = "done"]
    /\ UNCHANGED <<sellers, buyers, products, metadata>>

\* ------------------------------------------------------------------ reads
\* GET /search: every product, or those of one seller, ordered by ranking
\* with the unranked ones last.  (Names and descriptions are not modelled:
\* the query string is empty.)
search_products(seller_id) ==
    LET found == {p \in products : seller_id = None \/ p.seller_id = seller_id[1]}
        Key(p) == IF p.ranking = None THEN <<1, 0>> ELSE <<0, p.ranking[1]>>
    IN /\ \E results \in ReadOrders(found) :
             /\ \A i, j \in Indices(results) :
                   i < j => ~TupleLess(Key(results[j]), Key(results[i]))
             /\ resp' = Response("search_products", 200, <<results>>)
       /\ UNCHANGED db
       /\ UNCHANGED calls

\* The product read that also writes: it puts the battle of the product
\* read into the buyer-shopping phase.
get_product_SettingPhase(id) ==
    /\ resp' = IF id \notin Ids(products)
               THEN Response("get_product", 404, NoBody)
               ELSE Response("get_product", 200, <<Row(products, id)>>)
    /\ metadata' = IF id \notin Ids(products) THEN metadata
                   ELSE Upsert(PHASE_KEY, Row(products, id).battle_id, BUYER_SHOPPING)
    /\ UNCHANGED <<sellers, buyers, products, purchases>>
    /\ UNCHANGED calls

\* GET /product/{id}
get_product(id) ==
    /\ resp' = IF id \notin Ids(products)
               THEN Response("get_product", 404, NoBody)
               ELSE Response("get_product", 200, <<Row(products, id)>>)
    /\ UNCHANGED db
    /\ UNCHANGED calls

\* GET /buy/stats/by-seller: Seller LEFT JOIN Product LEFT JOIN Purchase of
\* the round read, grouped by seller.
get_purchases_per_seller ==
    /\ \E current_round \in UnscopedRounds :
          resp' = Response("get_purchases_per_seller", 200,
              <<{[seller_id |-> s.id,
                  purchase_count |->
                      Cardinality({i \in Indices(purchases) :
                          /\ purchases[i].round = current_round
                          /\ \E p \in products :
                                /\ p.seller_id = s.id
                                /\ p.id = purchases[i].product_id})] :
                 s \in sellers}>>)
    /\ UNCHANGED db
    /\ UNCHANGED calls

\* GET /getSalesStats: the purchases, their number and their revenue, of the
\* seller's products in the seller's battle and its current round.
get_sales_stats(token) ==
    /\ UNCHANGED db
    /\ UNCHANGED calls
    /\ LET decoded == decode_auth_token(token)
       IN IF decoded = None
          THEN resp' = Outcome("get_sales_stats", 401, NoBody, token)
          ELSE LET found == {x \in sellers :
                                /\ Text(x.id) = decoded[1]
                                /\ Text(x.battle_id) = decoded[2]
                                /\ x.auth_token = token}
               IN IF found = {}
                  THEN resp' = Outcome("get_sales_stats", 401, NoBody, token)
                  ELSE \E seller \in found :
                         LET battle_id == seller.battle_id
                             current_round == get_current_round(battle_id)
                             product_ids ==
                                 {x.id : x \in {y \in products :
                                     y.seller_id = seller.id /\ y.battle_id = battle_id}}
                             listed ==
                                 {i \in Indices(purchases) :
                                     /\ purchases[i].product_id \in product_ids
                                     /\ purchases[i].battle_id = battle_id
                                     /\ purchases[i].round = current_round
                                     /\ \E u \in buyers :
                                           /\ u.id = purchases[i].buyer_id
                                           /\ u.battle_id = battle_id}
                             prices ==
                                 [i \in Indices(purchases) |->
                                     IF i \in listed THEN purchases[i].price_of_purchase
                                     ELSE 0]
                         IN resp' = Outcome("get_sales_stats", 200,
                                <<battle_id,
                                  [seller_id |-> seller.id,
                                   total_sales |-> Cardinality(listed),
                                   total_revenue_in_cent |-> SumSeq(prices),
                                   purchases |-> listed]>>, token)

\* --------------------------------------------------------- specifications
\* Input sets of the requests.
PriceUpdateInputs == {None} \cup {Some(price) : price \in PriceInputs}
ImageUpdateInputs == {None, Some(<<"img01">>), Some(<<"img01", "img02">>)}

AdminPhase == \E b \in Battles, ph \in Phase : update_phase(b, ph)
AdminRound == \E b \in Battles, r \in RoundInputs : update_round(b, r)
AdminDay == \E b \in Battles, d \in DayInputs : update_day(b, d)
CreatePurchase ==
    /\ Len(purchases) < MaxPurchases
    /\ \E id \in ProductIds, token \in TokenInputs : create_purchase(id, token)
GetLeaderboard == \E b \in Battles : get_leaderboard(b)
InitializeRankings == \E b \in Battles : initialize_rankings(b)
UpdateRankingsBySales == \E b \in Battles : update_rankings_by_sales(b)

\* The whole backend, from the empty store.
Next ==
    \/ AdminPhase
    \/ AdminRound
    \/ AdminDay
    \/ \E s \in SellerIds, b \in Battles : create_seller(s, b)
    \/ \E u \in BuyerIds, b \in Battles : create_buyer(u, b)
    \/ \E id \in ProductIds, token \in TokenInputs, price \in PriceInputs,
          v \in VariantInputs, image_ids \in ImageIdInputs :
          create_product(id, token, price, v, image_ids)
    \/ \E id \in ProductIds, token \in TokenInputs, price \in PriceUpdateInputs,
          image_ids \in ImageUpdateInputs, ranking \in RankingInputs :
          update_product(id, token, price, image_ids, ranking)
    \/ CreatePurchase
    \/ GetLeaderboard
    \/ InitializeRankings
    \/ UpdateRankingsBySales

Spec == Init /\ [][Next]_vars

\* Phase gating of product writes and purchases: two sellers and a buyer
\* exist, in two battles; the orchestrator moves the phases while sellers
\* write products and the buyer purchases.  Rounds and days stay unset.
InitGate ==
    /\ sellers = {[id |-> "s1", battle_id |-> "b1",
                   auth_token |-> generate_auth_token(Text("s1"), Text("b1"), SecretOf("s1"))],
                  [id |-> "s2", battle_id |-> "b2",
                   auth_token |-> generate_auth_token(Text("s2"), Text("b2"), SecretOf("s2"))]}
    /\ buyers = {[id |-> "u1", battle_id |-> "b1",
                  auth_token |-> buyer_generate_auth_token(Text("u1"), Text("b1"), SecretOf("u1"))]}
    /\ products = {}
    /\ purchases = <<>>
    /\ metadata = {}
    /\ resp = Response("none", 0, NoBody)
    /\ calls = NoCalls

NextGate ==
    \/ AdminPhase
    \/ \E id \in ProductIds, token \in TokenInputs, price \in PriceInputs,
          v \in VariantInputs :
          create_product(id, token, price, v, <<"img01">>)
    \/ \E id \in ProductIds, token \in TokenInputs, price \in PriceUpdateInputs :
          update_product(id, token, price, None, None)
    \/ CreatePurchase

SpecGate == InitGate /\ [][NextGate]_vars

\* The rows both battles' sellers, the buyer and the OPEN phases make up.
SellerRow(id, battle_id) ==
    [id |-> id, battle_id |-> battle_id,
     auth_token |-> generate_auth_token(Text(id), Text(battle_id), SecretOf(id))]

BuyerRow(id, battle_id) ==
    [id |-> id, battle_id |-> battle_id,
     auth_token |-> buyer_generate_auth_token(Text(id), Text(battle_id), SecretOf(id))]

OpenPhases == {[key |-> PHASE_KEY, battle_id |-> b, value |-> OPEN] : b \in Battles}

ValidCreateProduct ==
    \E id \in ProductIds, token \in {s.auth_token : s \in sellers},
       price \in PriceInputs \ {0}, v \in VariantInputs :
        create_product(id, token, price, v, <<"img01">>)

ValidCreatePurchase ==
    /\ Len(purchases) < MaxPurchases
    /\ \E id \in Ids(products), token \in {u.auth_token : u \in buyers} :
          create_purchase(id, token)

\* The orchestrator sets the round of the first battle.
FirstBattleRound == \E r \in 1..MaxRound : update_round("b1", r)

\* Leaderboard: both battles are OPEN, one seller in each.  Sellers list
\* products, the orchestrator sets the round, the buyer purchases, the
\* leaderboard is read.
InitBoard ==
    /\ sellers = {SellerRow("s1", "b1"), SellerRow("s2", "b2")}
    /\ buyers = {BuyerRow("u1", "b1")}
    /\ products = {}
    /\ purchases = <<>>
    /\ metadata = OpenPhases
    /\ resp = Response("none", 0, NoBody)
    /\ calls = NoCalls

NextBoard ==
    \/ ValidCreateProduct
    \/ FirstBattleRound
    \/ ValidCreatePurchase
    \/ GetLeaderboard

SpecBoard == InitBoard /\ [][NextBoard]_vars

\* Rankings: both battles are OPEN, one seller in each.
NextRank ==
    \/ \E id \in ProductIds, token \in {s.auth_token : s \in sellers},
          v \in VariantInputs :
          create_product(id, token, 900, v, <<"img01">>)
    \/ \E id \in Ids(products), token \in {s.auth_token : s \in sellers} :
          update_product(id, token, None, None, Some(5))
    \/ FirstBattleRound
    \/ ValidCreatePurchase
    \/ InitializeRankings
    \/ UpdateRankingsBySales

SpecRank == InitBoard /\ [][NextRank]_vars

\* Overlapping ranking requests: the first battle's seller lists products,
\* the buyer purchases, two ranking requests for the first battle run a
\* statement at a time (the one called c1 is the one that starts first),
\* and a ranking request runs from start to end whenever no other is under
\* way.
NextRace ==
    \/ \E id \in ProductIds :
          create_product(id, SellerRow("s1", "b1").auth_token, 900, BUDGET, <<"img01">>)
    \/ ValidCreatePurchase
    \/ \E c \in CallIds :
          /\ c = "c2" => calls["c1"].pc # "idle"
          /\ update_rankings_by_sales_products(c, "b1")
    \/ \E c \in CallIds : update_rankings_by_sales_round(c)
    \/ \E c \in CallIds : update_rankings_by_sales_counts(c)
    \/ \E c \in CallIds : update_rankings_by_sales_commit(c)
    \/ (NoCallInFlight /\ update_rankings_by_sales("b1"))

SpecRace == InitBoard /\ [][NextRace]_vars

\* ------------------------------------------------------- the orchestrator
\* The green agent drives a battle through the admin API.  A POST to
\* /admin/phase, /admin/round or /admin/day is validated against its request
\* model, whose battle_id and value fields are both required, before the
\* handler runs: the status the backend answers with and the store it
\* leaves.
admin_post(field, body) ==
    IF ~({"battle_id", field} \subseteq DOMAIN body)
    THEN [status |-> 422, metadata |-> metadata]
    ELSE IF field = "phase"
    THEN [status |-> 200, metadata |-> Upsert(PHASE_KEY, body.battle_id, body.phase)]
    ELSE IF field = "round"
    THEN (IF body.round < 1
          THEN [status |-> 400, metadata |-> metadata]
          ELSE [status |-> 200,
                metadata |-> Upsert(ROUND_KEY, body.battle_id, str(body.round))])
    ELSE (IF body.day < 0
          THEN [status |-> 400, metadata |-> metadata]
          ELSE [status |-> 200,
                metadata |-> CHOOSE store \in set_current_day(body.battle_id, body.day) :
                                 TRUE])

\* The orchestrator's helpers: each posts its JSON body and raises unless
\* the status is 200.  change_phase posts Phase.OPEN whatever its argument.
change_phase(phase) == admin_post("phase", [phase |-> OPEN])
set_marketplace_round(round_number) == admin_post("round", [round |-> round_number])
set_marketplace_day(day) == admin_post("day", [day |-> day])

\* orchestrate_battle, one helper call or one round of prompts at a time:
\* pc is the statement the run is at, read holds current_round and
\* current_day.  An exception in the try block leads to the finally block,
\* whose own exception is caught.  clear_database runs a script whose
\* failure is only logged: the store is emptied or left as it is (the
\* tables other than metadata are empty throughout this specification).
orchestrate_battle(c, battle_id) ==
    LET at == calls[c].pc
        current_round == calls[c].read[1]
        current_day == calls[c].read[2]
        Goto(pc, r, d) ==
            [calls EXCEPT ![c] = [pc |-> pc, request |-> <<battle_id>>, read |-> <<r, d>>]]
        Helper(op, response, pc) ==
            /\ metadata' = response.metadata
            /\ resp' = Response(op, response.status, <<battle_id>>)
            /\ calls' = IF response.status = 200
                        THEN Goto(pc, current_round, current_day)
                        ELSE Goto("finally", current_round, current_day)
        AfterBuyers ==
            IF current_day < MaxDay
            THEN Goto("set_marketplace_day", current_round, current_day + 1)
            ELSE IF current_round < MaxRound
            THEN Goto("set_marketplace_round", current_round + 1, 0)
            ELSE Goto("finally", current_round, current_day)
    IN /\ at # "ended"
       /\ UNCHANGED <<sellers, buyers, products, purchases>>
       /\ CASE at = "idle" ->
                 /\ metadata' \in {{}, metadata}
                 /\ calls' = Goto("set_marketplace_round", 1, 0)
                 /\ UNCHANGED resp
            [] at = "set_marketplace_round" ->
                 Helper("set_marketplace_round", set_marketplace_round(current_round),
                        "set_marketplace_day")
            [] at = "set_marketplace_day" ->
                 Helper("set_marketplace_day", set_marketplace_day(current_day),
                        "change_phase_sellers")
            [] at = "change_phase_sellers" ->
                 Helper("change_phase", change_phase(SELLER_MANAGEMENT), "sellers")
            [] at = "sellers" ->
                 /\ calls' = Goto("change_phase_buyers", current_round, current_day)
                 /\ UNCHANGED <<metadata, resp>>
            [] at = "change_phase_buyers" ->
                 Helper("change_phase", change_phase(BUYER_SHOPPING), "buyers")
            [] at = "buyers" ->
                 /\ calls' = AfterBuyers
                 /\ UNCHANGED <<metadata, resp>>
            [] OTHER ->
                 LET response == change_phase(OPEN)
                 IN /\ metadata' = response.metadata
                    /\ resp' = Response("change_phase", response.status, <<battle_id>>)
                    /\ calls' = Goto("ended", current_round, current_day)

\* A battle run: before the run starts the phases of the battles are set
\* and read through the admin API; then the orchestrator runs the first
\* battle, and the phase is read at any time.
NextOrchestrate ==
    \/ /\ calls["c1"].pc = "idle"
       /\ \E b \in Battles, ph \in Phase : update_phase(b, ph)
    \/ \E b \in Battles : get_phase(b)
    \/ orchestrate_battle("c1", "b1")

SpecOrchestrate == Init /\ [][NextOrchestrate]_vars

\* Token codec: ids and battle ids are strings of at most MaxTextLen
\* characters, the colon among them; secrets are URL-safe, hence colon-free.
Alphabet == {"a", "b", ":"}
TextInputs == UNION {[1..k -> Alphabet] : k \in 0..MaxTextLen}
SecretInputs == {<<"k">>, <<"k", "-">>}

\* A token is issued for (id, battle_id) and decoded again.
seller_token(id, battle_id, secret) ==
    /\ resp' = Response("seller_token", 200,
                        <<id, battle_id,
                          decode_auth_token(generate_auth_token(id, battle_id, secret))>>)
    /\ UNCHANGED db
    /\ UNCHANGED calls

buyer_token(id, battle_id, secret) ==
    /\ resp' = Response("buyer_token", 200,
                        <<id, battle_id,
                          buyer_decode_auth_token(
                              buyer_generate_auth_token(id, battle_id, secret))>>)
    /\ UNCHANGED db
    /\ UNCHANGED calls

NextToken ==
    \/ \E id \in TextInputs, battle_id \in TextInputs, secret \in SecretInputs :
          seller_token(id, battle_id, secret)
    \/ \E id \in TextInputs, battle_id \in TextInputs, secret \in SecretInputs :
          buyer_token(id, battle_id, secret)

SpecToken == Init /\ [][NextToken]_vars

\* Authentication: the tokens a client can present are the stored ones and
\* tokens nobody was issued: a malformed one, the ids of a seller or of the
\* buyer with a guessed secret, and an entity's id and secret with the
\* other battle's id.
ForgedTokens ==
    {<<"invalid-token">>}
        \cup {generate_auth_token(Text(x.id), Text(x.battle_id), <<"guess">>) :
                 x \in sellers \cup buyers}
        \cup UNION {{generate_auth_token(Text(x.id), Text(b), SecretOf(x.id)) :
                        b \in Battles \ {x.battle_id}} : x \in sellers \cup buyers}

AuthTokenInputs ==
    {s.auth_token : s \in sellers} \cup {u.auth_token : u \in buyers} \cup ForgedTokens

NextAuth ==
    \/ \E id \in ProductIds, token \in AuthTokenInputs :
          create_product(id, token, 900, BUDGET, <<"img01">>)
    \/ \E id \in ProductIds, token \in AuthTokenInputs :
          update_product(id, token, Some(700), None, None)
    \/ /\ Len(purchases) < MaxPurchases
       /\ \E id \in ProductIds, token \in AuthTokenInputs : create_purchase(id, token)

SpecAuth == InitBoard /\ [][NextAuth]_vars

\* Prices: sellers create and update products with prices around zero.
PriceBoundaryInputs == {0 - 1, 0, 1, 900}
SellerTokens == {s.auth_token : s \in sellers}

NextPrice ==
    \/ \E id \in ProductIds, token \in SellerTokens, price \in PriceBoundaryInputs :
          create_product(id, token, price, BUDGET, <<"img01">>)
    \/ \E id \in ProductIds, token \in SellerTokens,
          price \in {None} \cup {Some(price) : price \in PriceBoundaryInputs} :
          update_product(id, token, price, None, None)

SpecPrice == InitBoard /\ [][NextPrice]_vars

\* Admin metadata: nothing is set at the start; the orchestrator sets and
\* reads the phase, the round and the day of both battles.
NextAdmin ==
    \/ AdminPhase
    \/ AdminRound
    \/ AdminDay
    \/ \E b \in Battles : get_phase(b)
    \/ \E b \in Battles : get_round(b)
    \/ \E b \in Battles : get_day(b)

SpecAdmin == Init /\ [][NextAdmin]_vars

\* Images: sellers create products of every variant and replace images,
\* with image lists of one category, of two categories, without category,
\* empty, or naming an image that does not exist.
ImageListInputs ==
    ImageIdInputs \cup {<<"img02">>, <<"img03">>, <<"img01", "img01">>}

NextImages ==
    \/ \E id \in ProductIds, token \in SellerTokens, v \in TowelVariant,
          image_ids \in ImageListInputs :
          create_product(id, token, 900, v, image_ids)
    \/ \E id \in ProductIds, token \in SellerTokens,
          image_ids \in {None} \cup {Some(l) : l \in ImageListInputs} :
          update_product(id, token, None, image_ids, None)

SpecImages == InitBoard /\ [][NextImages]_vars

\* Purchase stamps: both battles are OPEN, the buyer is in the first one.
\* A seller lists a product, the orchestrator sets rounds and days of both
\* battles, the buyer purchases.
NextStamp ==
    \/ \E token \in SellerTokens : create_product("p1", token, 900, BUDGET, <<"img01">>)
    \/ \E b \in Battles, r \in 1..MaxRound : update_round(b, r)
    \/ \E b \in Battles, d \in 0..MaxDay : update_day(b, d)
    \/ ValidCreatePurchase

SpecStamp == InitBoard /\ [][NextStamp]_vars

\* Purchase snapshots: both battles are OPEN.  The first seller lists a
\* product and changes its price, rankings are recomputed, the orchestrator
\* changes phase, round and day of the first battle, the buyer purchases,
\* the leaderboard of the first battle is read.
NextSnapshot ==
    \/ create_product("p1", SellerRow("s1", "b1").auth_token, 900, BUDGET, <<"img01">>)
    \/ \E price \in PriceUpdateInputs :
          update_product("p1", SellerRow("s1", "b1").auth_token, price, None, None)
    \/ update_rankings_by_sales("b1")
    \/ \E ph \in Phase : update_phase("b1", ph)
    \/ update_round("b1", 2)
    \/ update_day("b1", 1)
    \/ ValidCreatePurchase
    \/ get_leaderboard("b1")

SpecSnapshot == InitBoard /\ [][NextSnapshot]_vars

\* Ownership: two sellers of one battle and a seller of another battle, no
\* phase set.  The orchestrator moves the phase of the first battle, the
\* sellers list products and send updates of price, images and ranking
\* for every product.
InitOwner ==
    /\ sellers = {SellerRow("s1", "b1"), SellerRow("s2", "b1"), SellerRow("s3", "b2")}
    /\ buyers = {}
    /\ products = {}
    /\ purchases = <<>>
    /\ metadata = {}
    /\ resp = Response("none", 0, NoBody)
    /\ calls = NoCalls

OwnerUpdateInputs ==
    {<<price, image_ids, ranking>> :
        price \in PriceUpdateInputs,
        image_ids \in {None, Some(<<"img02">>)},
        ranking \in RankingInputs}

NextOwner ==
    \/ \E ph \in Phase : update_phase("b1", ph)
    \/ \E token \in SellerTokens :
          create_product("p1", token, 900, BUDGET, <<"img01">>)
    \/ \E token \in SellerTokens, u \in OwnerUpdateInputs :
          update_product("p1", token, u[1], u[2], u[3])

SpecOwner == InitOwner /\ [][NextOwner]_vars

\* Reads: a seller and a buyer in each of the two battles, both OPEN.
\* Sellers list one product each, buyers purchase, the round of the first
\* battle is advanced, and the products and the statistics are read.
InitReads ==
    /\ sellers = {SellerRow("s1", "b1"), SellerRow("s2", "b2")}
    /\ buyers = {BuyerRow("u1", "b1"), BuyerRow("u2", "b2")}
    /\ products = {}
    /\ purchases = <<>>
    /\ metadata = OpenPhases
    /\ resp = Response("none", 0, NoBody)
    /\ calls = NoCalls

NextReads ==
    \/ create_product("p1", SellerRow("s1", "b1").auth_token, 900, BUDGET, <<"img01">>)
    \/ create_product("p2", SellerRow("s2", "b2").auth_token, 700, BUDGET, <<"img01">>)
    \/ ValidCreatePurchase
    \/ update_round("b1", 2)
    \/ \E seller_id \in {None} \cup {Some(x) : x \in Ids(sellers)} :
          search_products(seller_id)
    \/ get_purchases_per_seller
    \/ \E token \in SellerTokens \cup ForgedTokens : get_sales_stats(token)

SpecReads == InitReads /\ [][NextReads]_vars

\* Wholesale cost: two sellers and a buyer in one OPEN battle.  The first
\* seller lists a towel of any variant at 1500, the second a budget towel
\* at 900; the buyer purchases in round 1; the leaderboard is read.
InitScenario ==
    /\ sellers = {SellerRow("s1", "b1"), SellerRow("s2", "b1")}
    /\ buyers = {BuyerRow("u1", "b1")}
    /\ products = {}
    /\ purchases = <<>>
    /\ metadata = OpenPhases
    /\ resp = Response("none", 0, NoBody)
    /\ calls = NoCalls

NextScenario ==
    \/ \E v \in TowelVariant :
          create_product("p1", SellerRow("s1", "b1").auth_token, 1500, v, <<"img01">>)
    \/ create_product("p2", SellerRow("s2", "b1").auth_token, 900, BUDGET, <<"img01">>)
    \/ /\ Len(purchases) < MaxScenarioPurchases
       /\ \E id \in Ids(products) : create_purchase(id, BuyerRow("u1", "b1").auth_token)
    \/ get_leaderboard("b1")

SpecScenario == InitScenario /\ [][NextScenario]_vars

\* Frame of the buyer- and seller-facing operations: the first battle has a
\* seller and a buyer, nothing is set.  The orchestrator sets phase, round
\* and day; the seller lists and updates a product, the buyer purchases it,
\* and every read is made.
InitFrame ==
    /\ sellers = {SellerRow("s1", "b1")}
    /\ buyers = {BuyerRow("u1", "b1")}
    /\ products = {}
    /\ purchases = <<>>
    /\ metadata = {}
    /\ resp = Response("none", 0, NoBody)
    /\ calls = NoCalls

NextFrame ==
    \/ \E ph \in Phase : update_phase("b1", ph)
    \/ update_round("b1", 2)
    \/ update_day("b1", 1)
    \/ create_product("p1", SellerRow("s1", "b1").auth_token, 900, BUDGET, <<"img01">>)
    \/ update_product("p1", SellerRow("s1", "b1").auth_token, Some(900), None, Some(5))
    \/ /\ purchases = <<>>
       /\ create_purchase("p1", BuyerRow("u1", "b1").auth_token)
    \/ search_products(None)
    \/ get_product("p1")
    \/ get_purchases_per_seller
    \/ get_sales_stats(SellerRow("s1", "b1").auth_token)
    \/ get_leaderboard("b1")

SpecFrame == InitFrame /\ [][NextFrame]_vars

\* Purchases under way while the battle moves on: the first battle has a
\* seller and a buyer, nothing is set.  The seller lists a product, the
\* phase of the battle is set at any time, its day and round advance the
\* way a battle of two rounds of two days advances them (day 1 of round 1,
\* then round 2, then day 0 of round 2), and two purchase requests of the
\* buyer run a statement at a time.
DayAndRound(b) == <<CHOOSE d \in UnscopedDays : TRUE, get_current_round(b)>>

NextOverlap ==
    \/ create_product("p1", SellerRow("s1", "b1").auth_token, 900, BUDGET, <<"img01">>)
    \/ \E ph \in Phase : update_phase("b1", ph)
    \/ (DayAndRound("b1") = <<0, 1>> /\ update_day("b1", 1))
    \/ (DayAndRound("b1") = <<1, 1>> /\ update_round("b1", 2))
    \/ (DayAndRound("b1") = <<1, 2>> /\ update_day("b1", 0))
    \/ \E c \in CallIds :
          create_purchase_lookup(c, "p1", BuyerRow("u1", "b1").auth_token)
    \/ \E c \in CallIds : create_purchase_ensure_phase(c)
    \/ \E c \in CallIds : create_purchase_day(c)
    \/ \E c \in CallIds : create_purchase_round(c)
    \/ \E c \in CallIds : create_purchase_commit(c)

SpecOverlap == InitFrame /\ [][NextOverlap]_vars

\* ------------------------------------------------------------------ claims
\* The battle of a product.
BattleOfProduct(product_id) == Row(products, product_id).battle_id

\* C1: a purchase request by a buyer of battle B for a product of B is
\* rejected with a phase violation (403) while B's phase is
\* SELLER_MANAGEMENT, and succeeds (200, one purchase appended) while B's
\* phase is BUYER_SHOPPING or OPEN.
C1_PurchaseGatedByBattlePhase ==
    (/\ resp.op = "create_purchase"
     /\ resp.status \in {200, 403}
     /\ BattleOfProduct(resp.body[2]) = resp.body[1])
        => /\ get_current_phase(resp.body[1]) = SELLER_MANAGEMENT
                => resp.status = 403
           /\ get_current_phase(resp.body[1]) \in {BUYER_SHOPPING, OPEN}
                => resp.status = 200

\* C2: a product creation or update by the authenticated owning seller of
\* battle B is rejected with a phase violation while B's phase is
\* BUYER_SHOPPING and accepted while it is SELLER_MANAGEMENT or OPEN.
C2_ProductWriteGatedByBattlePhase ==
    (/\ resp.op \in {"create_product", "update_product"}
     /\ \/ resp.status = 200
        \/ resp.status = 403 /\ resp.body[2] = "phase")
        => /\ get_current_phase(resp.body[1]) = BUYER_SHOPPING
                => resp.status = 403
           /\ get_current_phase(resp.body[1]) \in {SELLER_MANAGEMENT, OPEN}
                => resp.status = 200

\* ---- leaderboard claims: what the store says, counted purchase by purchase
\* The purchases (by position) stamped with round r of products owned by s.
PurchasesOfSellerInRound(s, r) ==
    {i \in Indices(purchases) :
        /\ purchases[i].round = r
        /\ \E p \in products : p.id = purchases[i].product_id /\ p.seller_id = s}

\* Sum of price minus wholesale cost over a set of purchase positions.
RECURSIVE ProfitOfPurchases(_)
ProfitOfPurchases(I) ==
    IF I = {} THEN 0
    ELSE LET i == CHOOSE i \in I : TRUE
         IN (purchases[i].price_of_purchase - purchases[i].wholesale_cost_at_purchase)
                + ProfitOfPurchases(I \ {i})

\* The leaderboard payload of the last response.
Board == resp.body[2]
SellersListed(entries) == {entries[i].seller_id : i \in Indices(entries)}
EntryOfSeller(entries, s) ==
    entries[CHOOSE i \in Indices(entries) : entries[i].seller_id = s]

\* C3: in a leaderboard response, every entry of every listed round carries
\* the number of purchases stamped with that round of products owned by the
\* entry's seller, and the sum over those purchases of price minus wholesale
\* cost (which may be negative); every seller of the requested battle is
\* listed in every round, with count 0 and profit 0 when it sold nothing.
C3_RoundEntriesCountAndProfit ==
    resp.op = "get_leaderboard" =>
        \A k \in Indices(Board.rounds) :
            LET rd == Board.rounds[k]
            IN /\ \A i \in Indices(rd.leaderboard) :
                    LET e == rd.leaderboard[i]
                        mine == PurchasesOfSellerInRound(e.seller_id, rd.round)
                    IN /\ e.purchase_count = Cardinality(mine)
                       /\ e.total_profit_cents = ProfitOfPurchases(mine)
                       /\ mine = {} =>
                            e.purchase_count = 0 /\ e.total_profit_cents = 0
               /\ \A s \in sellers :
                    s.battle_id = resp.body[1] => s.id \in SellersListed(rd.leaderboard)

\* A leaderboard with a round in which one seller made a loss and another
\* seller sold nothing.
C3_Witness ==
    /\ resp.op = "get_leaderboard"
    /\ \E k \in Indices(Board.rounds) :
          \E i, j \in Indices(Board.rounds[k].leaderboard) :
              /\ Board.rounds[k].leaderboard[i].total_profit_cents < 0
              /\ Board.rounds[k].leaderboard[i].purchase_count > 0
              /\ Board.rounds[k].leaderboard[j].purchase_count = 0
              /\ Board.rounds[k].leaderboard[j].total_profit_cents = 0

\* C4: the leaderboard requested for battle B lists, in every round and
\* overall, exactly one entry for each seller of B and no seller of another
\* battle.
C4_LeaderboardListsExactlyBattleSellers ==
    resp.op = "get_leaderboard" =>
        LET of_battle == {s.id : s \in {x \in sellers : x.battle_id = resp.body[1]}}
        IN /\ \A k \in Indices(Board.rounds) :
                /\ SellersListed(Board.rounds[k].leaderboard) = of_battle
                /\ Len(Board.rounds[k].leaderboard) = Cardinality(of_battle)
           /\ SellersListed(Board.overall.leaderboard) = of_battle
           /\ Len(Board.overall.leaderboard) = Cardinality(of_battle)

\* C5: a listed round without any purchase has no winner; a round with
\* purchases has as winners exactly the sellers whose profit in the round is
\* the round's maximum, each once.
C5_RoundWinners ==
    resp.op = "get_leaderboard" =>
        \A k \in Indices(Board.rounds) :
            LET rd == Board.rounds[k]
                has_purchase ==
                    \E i \in Indices(purchases) : purchases[i].round = rd.round
                at_maximum ==
                    {rd.leaderboard[i].seller_id : i \in
                        {i \in Indices(rd.leaderboard) :
                            \A j \in Indices(rd.leaderboard) :
                                rd.leaderboard[j].total_profit_cents
                                    <= rd.leaderboard[i].total_profit_cents}}
            IN IF has_purchase
               THEN /\ Range(rd.winners) = at_maximum
                    /\ Len(rd.winners) = Cardinality(at_maximum)
               ELSE rd.winners = <<>>

\* A leaderboard with a round two sellers win together and a round without
\* purchases.
C5_Witness ==
    /\ resp.op = "get_leaderboard"
    /\ \E k \in Indices(Board.rounds) :
          /\ Len(Board.rounds[k].winners) = 2
          /\ \E i \in Indices(purchases) : purchases[i].round = Board.rounds[k].round
    /\ \E k \in Indices(Board.rounds) :
          /\ Board.rounds[k].winners = <<>>
          /\ \A i \in Indices(purchases) : purchases[i].round # Board.rounds[k].round

\* Sums of a seller's per-round values over the first k listed rounds.
RECURSIVE CountOverRounds(_, _, _)
CountOverRounds(rounds, s, k) ==
    IF k = 0 THEN 0
    ELSE EntryOfSeller(rounds[k].leaderboard, s).purchase_count
            + CountOverRounds(rounds, s, k - 1)

RECURSIVE ProfitOverRounds(_, _, _)
ProfitOverRounds(rounds, s, k) ==
    IF k = 0 THEN 0
    ELSE EntryOfSeller(rounds[k].leaderboard, s).total_profit_cents
            + ProfitOverRounds(rounds, s, k - 1)

RoundsWonBy(rounds, s) ==
    Cardinality({k \in Indices(rounds) : s \in Range(rounds[k].winners)})

\* C6: every overall entry carries the sums of its seller's per-round count
\* and profit over the listed rounds and the number of rounds the seller
\* won; the overall winners are exactly the sellers with the most round
\* wins, each once (all sellers when nobody won a round).
C6_OverallTotalsAndWinners ==
    resp.op = "get_leaderboard" =>
        LET rounds == Board.rounds
            overall == Board.overall.leaderboard
            most_wins ==
                {overall[i].seller_id : i \in
                    {i \in Indices(overall) :
                        \A j \in Indices(overall) :
                            RoundsWonBy(rounds, overall[j].seller_id)
                                <= RoundsWonBy(rounds, overall[i].seller_id)}}
        IN /\ \A i \in Indices(overall) :
                LET e == overall[i]
                IN /\ e.purchase_count
                        = CountOverRounds(rounds, e.seller_id, Len(rounds))
                   /\ e.total_profit_cents
                        = ProfitOverRounds(rounds, e.seller_id, Len(rounds))
                   /\ e.round_wins = RoundsWonBy(rounds, e.seller_id)
           /\ Range(Board.overall.winners) = most_wins
           /\ Len(Board.overall.winners) = Cardinality(most_wins)

\* A leaderboard over two rounds in which one seller sold in both rounds and
\* won both.
C6_Witness ==
    /\ resp.op = "get_leaderboard"
    /\ Len(Board.rounds) = 2
    /\ \E i \in Indices(Board.overall.leaderboard) :
          /\ Board.overall.leaderboard[i].round_wins = 2
          /\ Board.overall.leaderboard[i].purchase_count = 2
    /\ Len(Board.overall.winners) = 1

\* Entry a comes strictly before entry b in a round / in the overall order.
RoundBefore(a, b) ==
    \/ a.total_profit_cents > b.total_profit_cents
    \/ /\ a.total_profit_cents = b.total_profit_cents
       /\ \/ a.purchase_count > b.purchase_count
          \/ /\ a.purchase_count = b.purchase_count
             /\ IdIndex(a.seller_id) < IdIndex(b.seller_id)

OverallBefore(a, b) ==
    \/ a.round_wins > b.round_wins
    \/ a.round_wins = b.round_wins /\ RoundBefore(a, b)

\* C7: each round's leaderboard is strictly ordered by (profit descending,
\* count descending, seller id ascending) and the overall one by (round wins
\* descending, then the same); the payload is the same for every order in
\* which the sellers can have been read.
C7_SortedAndReadOrderIndependent ==
    resp.op = "get_leaderboard" =>
        /\ \A k \in Indices(Board.rounds) :
              \A i, j \in Indices(Board.rounds[k].leaderboard) :
                  i < j => RoundBefore(Board.rounds[k].leaderboard[i],
                                       Board.rounds[k].leaderboard[j])
        /\ \A i, j \in Indices(Board.overall.leaderboard) :
              i < j => OverallBefore(Board.overall.leaderboard[i],
                                     Board.overall.leaderboard[j])
        /\ \A seller_ids \in ReadOrders(Ids(sellers)) :
              Leaderboard(seller_ids, Board.current_round) = Board

\* A leaderboard with a round in which only the seller id separates two
\* entries, and an overall order decided by round wins.
C7_Witness ==
    /\ resp.op = "get_leaderboard"
    /\ \E k \in Indices(Board.rounds) :
          LET entries == Board.rounds[k].leaderboard
          IN /\ Len(entries) = 2
             /\ entries[1].total_profit_cents = entries[2].total_profit_cents
             /\ entries[1].purchase_count = entries[2].purchase_count
    /\ Board.overall.leaderboard[1].round_wins > Board.overall.leaderboard[2].round_wins

\* ---- ranking claims
\* The products of battle b as the store holds them, and their rankings.
RankedProducts(b) == {p \in products : p.battle_id = b}
RankOf(product_id) == Row(products, product_id).ranking[1]

\* The purchases (by position) of a product made in battle b and stamped
\* with round r.
PurchasesOfProductInRound(product_id, b, r) ==
    {i \in Indices(purchases) :
        /\ purchases[i].product_id = product_id
        /\ purchases[i].battle_id = b
        /\ purchases[i].round = r}

\* The round the store holds for battle b (1 when none is stored).
StoredRound(b) ==
    LET rows == {m \in metadata : m.key = ROUND_KEY /\ m.battle_id = b}
    IN IF rows = {} THEN 1 ELSE int((CHOOSE m \in rows : TRUE).value)

\* The rankings of the products of battle b are exactly 1..N, each once.
RankingsArePermutation(b) ==
    LET N == Cardinality(RankedProducts(b))
    IN /\ \A p \in RankedProducts(b) : p.ranking # None
       /\ {p.ranking[1] : p \in RankedProducts(b)} = 1..N
       /\ \A p, q \in RankedProducts(b) : p.ranking = q.ranking => p.id = q.id

\* C8: after initialize_rankings(B) the rankings of B's N >= 1 products are
\* exactly 1..N, none unset and none twice, and the call reports N; a call
\* on a battle without products changes nothing and reports 0.
C8_InitializeRankings ==
    /\ [](resp.op = "initialize_rankings" =>
            /\ resp.body[2] = Cardinality(RankedProducts(resp.body[1]))
            /\ RankingsArePermutation(resp.body[1]))
    /\ [][(resp'.op = "initialize_rankings" /\ RankedProducts(resp'.body[1]) = {})
            => (db' = db /\ resp'.body[2] = 0)]_vars

\* initialize_rankings has ranked the two products of a battle, one of which
\* has been bought.
C8_Witness ==
    /\ resp.op = "initialize_rankings"
    /\ Cardinality(RankedProducts(resp.body[1])) = 2
    /\ resp.body[2] = 2
    /\ \E i \in Indices(purchases) :
          /\ purchases[i].battle_id = resp.body[1]
          /\ RankOf(purchases[i].product_id) = 2

\* The sales count update_rankings_by_sales reported for a product.
ReportedSales(product_id) ==
    LET top_products == resp.body[3]
    IN top_products[CHOOSE i \in Indices(top_products) :
                        top_products[i].product_id = product_id].sales_count

\* C9: after update_rankings_by_sales(B) the rankings of B's products are a
\* permutation of 1..N; a better rank never goes with a smaller sales
\* count, and a product without a purchase in B's current round is never
\* ranked better than a product with one.
C9_RankingFollowsSales ==
    resp.op = "update_rankings_by_sales" =>
        LET B == resp.body[1]
        IN /\ RankingsArePermutation(B)
           /\ resp.body[2] = Cardinality(RankedProducts(B))
           /\ \A p, q \in RankedProducts(B) :
                RankOf(p.id) < RankOf(q.id) =>
                    /\ ReportedSales(p.id) >= ReportedSales(q.id)
                    /\ ~ (/\ PurchasesOfProductInRound(p.id, B, StoredRound(B)) = {}
                          /\ PurchasesOfProductInRound(q.id, B, StoredRound(B)) # {})

\* update_rankings_by_sales has ranked a battle's two products, the one with
\* sales first and the one without second.
C9_Witness ==
    /\ resp.op = "update_rankings_by_sales"
    /\ \E p, q \in RankedProducts(resp.body[1]) :
          /\ RankOf(p.id) = 1 /\ RankOf(q.id) = 2
          /\ ReportedSales(p.id) > 0
          /\ ReportedSales(q.id) = 0

\* C10: the sales count update_rankings_by_sales reports for a product is
\* the number of its purchases stamped with B's current round, and a product
\* with more such purchases is ranked better, whatever was bought in
\* earlier rounds.
C10_OnlyCurrentRoundCounts ==
    resp.op = "update_rankings_by_sales" =>
        LET B == resp.body[1]
            current(product_id) ==
                Cardinality(PurchasesOfProductInRound(product_id, B, StoredRound(B)))
        IN /\ \A i \in Indices(resp.body[3]) :
                resp.body[3][i].sales_count = current(resp.body[3][i].product_id)
           /\ \A p, q \in RankedProducts(B) :
                current(p.id) > current(q.id) => RankOf(p.id) < RankOf(q.id)

\* The round was advanced after a purchase: the product bought in the
\* earlier round is reported with no sale and ranked behind the product
\* bought in the current round.
C10_Witness ==
    /\ resp.op = "update_rankings_by_sales"
    /\ StoredRound(resp.body[1]) = 2
    /\ \E p, q \in RankedProducts(resp.body[1]) :
          /\ PurchasesOfProductInRound(p.id, resp.body[1], 1) # {}
          /\ ReportedSales(p.id) = 0
          /\ PurchasesOfProductInRound(q.id, resp.body[1], 2) # {}
          /\ RankOf(q.id) = 1 /\ RankOf(p.id) = 2

\* The products outside battle b.
ProductsOutside(b) == {p \in products : p.battle_id # b}

\* C11: a step of initialize_rankings(B) or update_rankings_by_sales(B)
\* leaves every product outside B as it was, changes nothing but the
\* ranking of B's products, and leaves B's rankings a permutation of 1..N
\* counted over B's products alone; the ranks update_rankings_by_sales
\* assigns follow the purchases made in B in B's round only.
C11_RankingCallsStayInBattle ==
    [][resp'.op \in {"initialize_rankings", "update_rankings_by_sales"} =>
          \A B \in Battles : resp'.body[1] = B =>
             /\ ProductsOutside(B)' = ProductsOutside(B)
             /\ \A p \in RankedProducts(B) :
                   \E q \in RankedProducts(B)' :
                       /\ q = [p EXCEPT !.ranking = q.ranking]
                       /\ q.ranking # None
             /\ RankingsArePermutation(B)'
             /\ resp'.op = "update_rankings_by_sales" =>
                   \A p, q \in RankedProducts(B)' :
                       Cardinality(PurchasesOfProductInRound(p.id, B, StoredRound(B)))
                           > Cardinality(PurchasesOfProductInRound(q.id, B, StoredRound(B)))
                       => p.ranking[1] < q.ranking[1]]_vars

\* update_rankings_by_sales has ranked a battle's products while a bought
\* product of the other battle keeps the ranking 5 its seller gave it.
C11_Witness ==
    /\ resp.op = "update_rankings_by_sales"
    /\ resp.status = 200
    /\ \E p \in RankedProducts(resp.body[1]), q \in ProductsOutside(resp.body[1]) :
          /\ p.ranking = Some(1)
          /\ q.ranking = Some(5)
          /\ \E i \in Indices(purchases) : purchases[i].product_id = q.id

\* C12: decoding the token issued for (id, battle_id) returns exactly
\* (id, battle_id), for seller tokens and for buyer tokens, whatever
\* strings the two ids are.
C12_TokenRoundTrip ==
    resp.op \in {"seller_token", "buyer_token"} =>
        resp.body[3] = <<resp.body[1], resp.body[2]>>

\* The requests that carry a bearer token.
AuthenticatedOps == {"create_product", "update_product", "create_purchase"}

C14_PricesStayPositive ==
    /\ [](\A p \in products : p.price_in_cent > 0)
    /\ [][\A id \in ProductIds, token \in SellerTokens :
             /\ \A price \in {x \in PriceBoundaryInputs : x <= 0} :
                   /\ create_product(id, token, price, BUDGET, <<"img01">>)
                        => (resp'.status = 422 /\ db' = db)
                   /\ update_product(id, token, Some(price), None, None)
                        => (resp'.status = 422 /\ db' = db)
             /\ (create_product(id, token, 1, BUDGET, <<"img01">>)
                    /\ id \notin Ids(products))
                  => /\ resp'.status = 200
                     /\ \E p \in products' \ products :
                           p.id = id /\ p.price_in_cent = 1]_vars

\* An update is rejected by the price validator while a product created at
\* price 1 is stored.
C14_Witness ==
    /\ resp.op = "update_product"
    /\ resp.status = 422
    /\ \E p \in products : p.price_in_cent = 1

\* The categories of the images of a product.
ImageCategories(p) == {img.product_number : img \in {i \in Images : i.id \in p.images}}

\* C15: every stored product has at least one image, all its images carry
\* one category, and that category is the one of the product's towel
\* variant (budget 01, mid_tier 02, premium 03).
C15_ImagesMatchVariant ==
    \A p \in products :
        /\ p.images # {}
        /\ ImageCategories(p) = {TOWEL_VARIANT_TO_PRODUCT_NUMBER[p.towel_variant]}

\* The battles no metadata row has been written for.
UnsetBattles == {b \in Battles : \A r \in metadata : r.battle_id # b}

\* C16: for a battle for which no phase, day or round has been set, the
\* services read phase SELLER_MANAGEMENT, round 1 and day 0, and the admin
\* reads answer with these values.
C16_UnsetBattleReadsDefaults ==
    \A b \in UnsetBattles :
        /\ get_current_phase(b) = SELLER_MANAGEMENT
        /\ get_current_round(b) = 1
        /\ UnscopedDays = {0}
        /\ (resp.op = "get_phase" /\ resp.body[1] = b) => resp.body[2] = SELLER_MANAGEMENT
        /\ (resp.op = "get_round" /\ resp.body[1] = b) => resp.body[2] = 1
        /\ (resp.op = "get_day" /\ resp.body[1] = b) => resp.body[2] = 0

\* C17: setting the day of battle B to d < 0, or its round to r < 1, is
\* answered 400 and leaves the store as it was; for d >= 0 and r >= 1 the
\* set is answered 200 and the read for B returns the value; and no step
\* other than a successful set of B's day (round) changes the day (round)
\* read for B.
C17_SettersValidateAndReadsFollow ==
    [][\A b \in Battles :
          /\ \A d \in DayInputs :
                update_day(b, d) =>
                    IF d < 0 THEN resp'.status = 400 /\ metadata' = metadata
                    ELSE resp'.status = 200 /\ UnscopedDays' = {d}
          /\ \A r \in RoundInputs :
                update_round(b, r) =>
                    IF r < 1 THEN resp'.status = 400 /\ metadata' = metadata
                    ELSE resp'.status = 200 /\ get_current_round(b)' = r
          /\ (~ \E d \in 0..MaxDay : update_day(b, d))
                => UnscopedDays' = UnscopedDays
          /\ (~ \E r \in 1..MaxRound : update_round(b, r))
                => get_current_round(b)' = get_current_round(b)]_vars

\* What the services read for a battle: phase, round, and the day reads.
PhaseRead(b) == get_current_phase(b)
RoundRead(b) == get_current_round(b)
DayRead(b) == UnscopedDays

\* C18: a set of the phase, the day or the round of battle B leaves the
\* phase, day and round read for every other battle as they were, and
\* leaves the other two values of B as they were.
C18_SettersChangeOneValueOfOneBattle ==
    [][\A b \in Battles :
          LET OthersKeep ==
                  \A o \in Battles \ {b} :
                      /\ PhaseRead(o)' = PhaseRead(o)
                      /\ RoundRead(o)' = RoundRead(o)
                      /\ DayRead(o)' = DayRead(o)
          IN /\ (\E ph \in Phase : update_phase(b, ph))
                   => /\ OthersKeep
                      /\ RoundRead(b)' = RoundRead(b)
                      /\ DayRead(b)' = DayRead(b)
             /\ (\E r \in RoundInputs : update_round(b, r))
                   => /\ OthersKeep
                      /\ PhaseRead(b)' = PhaseRead(b)
                      /\ DayRead(b)' = DayRead(b)
             /\ (\E d \in DayInputs : update_day(b, d))
                   => /\ OthersKeep
                      /\ PhaseRead(b)' = PhaseRead(b)
                      /\ RoundRead(b)' = RoundRead(b)]_vars

\* C19: a purchase made in battle B is stamped with the day and the round
\* the server reads for B when the purchase is made; the request carries a
\* product id and a token and nothing else.
C19_PurchaseStampedWithBattleDayAndRound ==
    [][Len(purchases') > Len(purchases) =>
          LET pu == purchases'[Len(purchases')]
          IN \A b \in Battles :
                pu.battle_id = b =>
                    /\ pu.purchased_at \in DayRead(b)
                    /\ pu.round = RoundRead(b)]_vars

\* C20: a purchase is written with the price and the wholesale cost its
\* product has at that moment; no step changes or removes a purchase
\* already written; and every profit a leaderboard reports is the sum of
\* price minus cost as stored with the purchases, whatever the products'
\* prices have become.
C20_PurchasesAreSnapshotsAndImmutable ==
    /\ [][Len(purchases') > Len(purchases) =>
             LET pu == purchases'[Len(purchases')]
             IN \A p \in products :
                   p.id = pu.product_id =>
                       /\ pu.price_of_purchase = p.price_in_cent
                       /\ pu.wholesale_cost_at_purchase = p.wholesale_cost_cents]_vars
    /\ [][/\ Len(purchases') >= Len(purchases)
          /\ \A i \in Indices(purchases) : purchases'[i] = purchases[i]]_vars
    /\ [](resp.op = "get_leaderboard" =>
             \A k \in Indices(Board.rounds) :
                 \A i \in Indices(Board.rounds[k].leaderboard) :
                     LET e == Board.rounds[k].leaderboard[i]
                     IN e.total_profit_cents =
                            ProfitOfPurchases(
                                PurchasesOfSellerInRound(e.seller_id, Board.rounds[k].round)))

\* A leaderboard read after a product was bought at 900, its price was then
\* lowered to 700, its ranking recomputed and the phase, round and day of
\* its battle changed: the round of the purchase still shows the profit 100.
C20_Witness ==
    /\ resp.op = "get_leaderboard"
    /\ \E i \in Indices(purchases), p \in products :
          /\ p.id = purchases[i].product_id
          /\ purchases[i].price_of_purchase = 900
          /\ p.price_in_cent = 700
          /\ p.ranking # None
          /\ purchases[i].round # get_current_round("b1")
          /\ purchases[i].purchased_at \notin UnscopedDays
          /\ get_current_phase("b1") = SELLER_MANAGEMENT
          /\ \E k \in Indices(Board.rounds) :
                /\ Board.rounds[k].round = purchases[i].round
                /\ EntryOfSeller(Board.rounds[k].leaderboard, p.seller_id).total_profit_cents = 100

\* C21: an update of an existing product sent with the token of a stored
\* seller who is not the product's owner is answered 403 (422 when the
\* payload itself is invalid) and leaves the products as they were,
\* whatever the phase, OPEN included.
C21_NonOwnerUpdateIsForbidden ==
    [][\A token \in SellerTokens, u \in OwnerUpdateInputs :
          (/\ update_product("p1", token, u[1], u[2], u[3])
           /\ \E p \in products, s \in sellers :
                 p.id = "p1" /\ s.auth_token = token /\ p.seller_id # s.id)
            => /\ products' = products
               /\ resp'.status = IF ProductUpdateValid(u[1]) THEN 403 ELSE 422]_vars

\* A seller of the owner's battle was refused the update of price, images
\* and ranking while the phase is OPEN.
C21_Witness ==
    /\ resp.op = "update_product"
    /\ resp.status = 403
    /\ get_current_phase("b1") = OPEN
    /\ \E p \in products, s \in sellers :
          /\ s.auth_token = resp.token
          /\ p.seller_id # s.id
          /\ p.battle_id = s.battle_id

\* The battle of a seller id.
BattleOfSeller(id) == Row(sellers, id).battle_id

\* C22: no read mixes battles: the products a search returns belong to one
\* battle; the sellers the per-seller statistics list belong to one battle
\* and a seller's count holds only purchases made in that seller's battle;
\* a seller's sales statistics list only purchases of the seller's battle
\* and report their number and revenue.
C22_ReadsStayInOneBattle ==
    /\ resp.op = "search_products" =>
          \A i, j \in Indices(resp.body[1]) :
              resp.body[1][i].battle_id = resp.body[1][j].battle_id
    /\ resp.op = "get_purchases_per_seller" =>
          /\ \A a, b \in resp.body[1] :
                BattleOfSeller(a.seller_id) = BattleOfSeller(b.seller_id)
          /\ \A a \in resp.body[1] :
                a.purchase_count <=
                    Cardinality({i \in Indices(purchases) :
                        purchases[i].battle_id = BattleOfSeller(a.seller_id)})
    /\ (resp.op = "get_sales_stats" /\ resp.status = 200) =>
          LET stats == resp.body[2]
          IN /\ \A i \in stats.purchases : purchases[i].battle_id = resp.body[1]
             /\ stats.total_sales = Cardinality(stats.purchases)
             /\ stats.total_revenue_in_cent =
                    SumSeq([i \in Indices(purchases) |->
                               IF i \in stats.purchases
                               THEN purchases[i].price_of_purchase ELSE 0])

\* Three purchases, all of them of a budget product the seller lists at
\* 1500 and all in round 1.
ThreeBudgetPurchasesOf(s) ==
    /\ Len(purchases) = 3
    /\ \A i \in Indices(purchases) :
          /\ purchases[i].round = 1
          /\ \E p \in products :
                /\ p.id = purchases[i].product_id
                /\ p.seller_id = s
                /\ p.towel_variant = BUDGET
                /\ p.price_in_cent = 1500

AdminSetOps == {"update_phase", "update_round", "update_day"}

\* C24: a step of any operation other than the three administrative sets
\* (product create and update, purchase, search, product read, sales
\* statistics, per-seller statistics, leaderboard) leaves the metadata
\* rows, and with them every battle's phase, round and day, as they were.
C24_OnlyAdminSetsChangeMetadata ==
    [][resp'.op \notin AdminSetOps =>
          /\ metadata' = metadata
          /\ \A b \in Battles :
                /\ PhaseRead(b)' = PhaseRead(b)
                /\ RoundRead(b)' = RoundRead(b)
                /\ DayRead(b)' = DayRead(b)]_vars

\* A purchase was made after the orchestrator had set phase, round and day
\* of the first battle.
C24_Witness ==
    /\ resp.op = "create_purchase"
    /\ resp.status = 200
    /\ PhaseRead("b1") = BUYER_SHOPPING
    /\ \E p \in products : p.ranking = Some(5)
    /\ RoundRead("b1") = 2
    /\ DayRead("b1") = {1}
    /\ purchases # <<>>

\* C25: when update_rankings_by_sales ranks the products of a battle read
\* in some order, two products with the same sales count in the current
\* round, zero included, are ranked in the order they were read in.
C25_TiesKeepReadOrder ==
    [][\A b \in Battles :
          \A o \in ReadOrders(Ids(ProductsOfBattle(b))) :
              (/\ resp'.op = "update_rankings_by_sales"
               /\ o # <<>>
               /\ UNCHANGED <<sellers, buyers, purchases, metadata>>
               /\ rank_by_sales(b, o))
                => \A i, j \in Indices(o) :
                      (/\ i < j
                       /\ sales_count(o[i], b, get_current_round(b))
                            = sales_count(o[j], b, get_current_round(b)))
                        => RankOf(o[i])' < RankOf(o[j])']_vars

\* update_rankings_by_sales ranked two products that were bought once each
\* in the current round, the second product id first.
C25_Witness ==
    /\ resp.op = "update_rankings_by_sales"
    /\ resp.body[1] = "b1"
    /\ Ids(ProductsOfBattle("b1")) = {"p1", "p2"}
    /\ RankOf("p2") = 1
    /\ RankOf("p1") = 2
    /\ ReportedSales("p1") = 1
    /\ ReportedSales("p2") = 1

\* ---- claims about overlapping requests
\* The rankings battle b's products would get from a ranking request that
\* read them in order o.
RankingFromOrder(b, o) == RankingBySales(SortedBySales(o, b, StoredRound(b)))

\* The last response answers a ranking request that ran from start to end
\* with no other ranking request under way.
SerialRankingAnswer ==
    /\ resp.op = "update_rankings_by_sales"
    /\ "call" \notin DOMAIN resp

\* C26: whatever two overlapping update_rankings_by_sales(B) requests and
\* the purchases between their statements left behind, once a further
\* request has run alone to completion B's rankings are a permutation of
\* 1..N, ordered by the current round's sales, and are the rankings that
\* request gives from the purchases alone.
C26_SerialCallRepairsRankings ==
    (SerialRankingAnswer /\ RankedProducts(resp.body[1]) # {}) =>
        LET B == resp.body[1]
        IN /\ RankingsArePermutation(B)
           /\ \A p, q \in RankedProducts(B) :
                RankOf(p.id) < RankOf(q.id) =>
                    Cardinality(PurchasesOfProductInRound(p.id, B, StoredRound(B)))
                      >= Cardinality(PurchasesOfProductInRound(q.id, B, StoredRound(B)))
           /\ \E o \in ReadOrders(Ids(RankedProducts(B))) :
                \A p \in RankedProducts(B) : RankOf(p.id) = RankingFromOrder(B, o)[p.id]

\* Two overlapping requests that read different sales counts have both
\* committed, one of them only part of its rankings, and a request run
\* alone afterwards has ranked the two products.
C26_Witness ==
    /\ SerialRankingAnswer
    /\ \A c \in CallIds : calls[c].pc = "done"
    /\ Ids(RankedProducts("b1")) = {"p1", "p2"}
    /\ calls["c1"].read[4] # calls["c2"].read[4]
    /\ calls["c1"].read[2] = [id \in {"p1", "p2"} |-> IF id = "p1" THEN Some(1) ELSE None]
    /\ calls["c2"].read[2] = calls["c1"].read[2]
    /\ RankOf("p2") = 1

\* Two overlapping ranking requests have left two products of a battle with
\* the same ranking.
RaceLeavesDuplicateRanks ==
    /\ \A c \in CallIds : calls[c].pc = "done"
    /\ Ids(RankedProducts("b1")) = {"p1", "p2"}
    /\ Row(products, "p1").ranking = Row(products, "p2").ranking
    /\ Row(products, "p1").ranking # None

\* ---- orchestrator claims
\* The statement the orchestrator's run of the first battle is at.
OrchestratorAt == calls["c1"].pc

\* C27: a change_phase(phase) that returns leaves the backend in that
\* phase: the battle's phase is SELLER_MANAGEMENT while the orchestrator
\* prompts the sellers, BUYER_SHOPPING while it prompts the buyers, and
\* OPEN once orchestrate_battle has ended.
C27_ChangePhaseSetsThePhase ==
    /\ OrchestratorAt = "sellers" => get_current_phase("b1") = SELLER_MANAGEMENT
    /\ OrchestratorAt = "buyers" => get_current_phase("b1") = BUYER_SHOPPING
    /\ OrchestratorAt = "ended" => get_current_phase("b1") = OPEN

\* ---- claims about purchases under way
\* The purchase a step has just committed.
Committed == purchases'[Len(purchases')]

\* C28: no purchase of a battle is committed while the battle's stored
\* phase is SELLER_MANAGEMENT, whatever phase changes fall between the
\* statements of the purchase request.
C28_NoPurchaseCommittedInSellerPhase ==
    [][Len(purchases') = Len(purchases) + 1
         => \A b \in Battles :
               Committed.battle_id = b => get_current_phase(b)' # SELLER_MANAGEMENT]_vars

\* The (day, round) pairs of battle b, in the order the battle goes through
\* them, and those it has gone through so far.
Timeline == <<(<<0, 1>>), (<<1, 1>>), (<<1, 2>>), (<<0, 2>>)>>

PairsSoFar(b) ==
    {Timeline[i] : i \in 1..(CHOOSE k \in Indices(Timeline) : Timeline[k] = DayAndRound(b))}

\* C29: the (purchased_at, round) pair of a purchase is a (day, round) pair
\* its battle has had at one moment, whatever sets of the day and the round
\* fall between the two reads of the purchase request.
C29_StampIsOneMomentsDayAndRound ==
    [][Len(purchases') = Len(purchases) + 1
         => \A b \in Battles :
               Committed.battle_id = b
                 => <<Committed.purchased_at, Committed.round>> \in PairsSoFar(b)']_vars

\* ---- round winners and purchases
\* C30: every seller listed among the winners of a round of a leaderboard
\* has a purchase of one of its products stamped with that round, whatever
\* the profits of the round are.
C30_WinnersHaveAPurchase ==
    resp.op = "get_leaderboard" =>
        \A k \in Indices(Board.rounds) :
            \A s \in Range(Board.rounds[k].winners) :
                \E i \in Indices(purchases) :
                    /\ purchases[i].round = Board.rounds[k].round
                    /\ Row(products, purchases[i].product_id).seller_id = s

====
